---------------------------- MODULE Spec2Model ----------------------------
(***************************************************************************)
(* A model of the document-translation scripts of HelixTranslate.          *)
(*                                                                         *)
(* Python strings are sequences of one-character strings, so that strip(), *)
(* len(), slicing, startswith() and substring search are computed and not  *)
(* assumed.  Cyrillic text is written with Latin stand-in letters.  The    *)
(* Python value None is the one-element sequence <<"None">>, which is no   *)
(* string of the model because "None" is not a character.                  *)
(*                                                                         *)
(* One run of the model is one run of one script; the variable prog names  *)
(* the script.  The scripts are sequential: an action is one step of the   *)
(* script between two blocking points (a call of the translation backend). *)
(***************************************************************************)
EXTENDS Integers, Sequences, FiniteSets, TLC

VARIABLES
    prog,               \* the script that runs
    doc,                \* the parsed input tree (never changes)
    text, tail,         \* Element.text and Element.tail of every node
    pc,                 \* position of the script: "walk", "backend", "done"
    todo,               \* the slots the recursive walk has still to visit
    attempt,            \* loop variable of the retry loop
    translate_enabled,  \* self.translate_enabled (and self.translator is set)
    translation_cache,  \* self.translation_cache
    translation_stats,  \* self.translation_stats
    errors,             \* self.errors
    translation_count,  \* translation_count of the tree scripts
    error_count,        \* error_count of the tree scripts
    ret,                \* what the last call of the translate function returned
    calls,              \* backend calls made by the translate call in progress or last finished
    lastKind,           \* how the last backend call ended: "ok" or the kind of its failure
    raises,             \* how often the backend has raised in this run
    fromBackend,        \* cache keys whose value the live backend produced
    submitted,          \* the fragments handed to the translate function, in order
    provider,           \* translate_llm_only: what get_translation_provider finds
    model_file,         \* translate_llm_only: the GGUF file of translate_with_llamacpp exists
    environment,        \* translate_llm_only: the binary, the model directories, config.json
    invoked,            \* translate_llm_only: the backends called for the paragraph of this round
    written,            \* the output document has been serialized
    paragraphs,         \* translate_llm_only: content.split('\n\n')
    translated_paragraphs,
    failed_paragraphs,
    stdout,             \* what the last backend call of translate_llm_only answered
    new_tree,           \* the copying scripts: the tree built so far
    target_script,      \* high_quality_translate: 'cyrillic' or 'latin'
    success,            \* what translate_markdown_file returned, "None" before it returns
    translation_file,   \* the lines of the translation list file, None before there is one
    updated_lines,      \* auto_translate_list: updated_lines
    line_index          \* auto_translate_list: i, the loop variable of process_translation_list

vars == <<prog, doc, text, tail, pc, todo, attempt, translate_enabled,
          translation_cache, translation_stats, errors, translation_count,
          error_count, ret, calls, lastKind, raises, fromBackend, submitted,
          provider, model_file, paragraphs, translated_paragraphs,
          failed_paragraphs, stdout, success, new_tree, target_script,
          environment, invoked, written, translation_file, updated_lines,
          line_index>>

\* the state only AdvancedFB2Translator has, and the counters only the other scripts have
fb2Own == <<translation_cache, translation_stats, errors, fromBackend>>

\* the state only the scripts that work on a translation list have
listOwn == <<translation_file, updated_lines, line_index>>
counters == <<translation_count, error_count>>

\* the state only the copying scripts have
copyOwn == <<new_tree, target_script>>

\* the state only translate_llm_only.py has
mdOwn == <<provider, model_file, paragraphs, translated_paragraphs,
           failed_paragraphs, stdout, success, environment, invoked>>

---------------------------------------------------------------------------
(* Strings *)

None == <<"None">>

\* the scripts that never touch a translation list
NoListState == translation_file = None /\ updated_lines = <<>> /\ line_index = 0

IsSpace(c) == c \in {" ", "\n", "\t"}

\* str.strip(): without leading and trailing whitespace
Strip(s) ==
    IF \A i \in 1..Len(s) : IsSpace(s[i]) THEN <<>>
    ELSE LET first == CHOOSE i \in 1..Len(s) :
                        ~IsSpace(s[i]) /\ \A j \in 1..(i-1) : IsSpace(s[j])
             last  == CHOOSE i \in 1..Len(s) :
                        ~IsSpace(s[i]) /\ \A j \in (i+1)..Len(s) : IsSpace(s[j])
         IN  SubSeq(s, first, last)

\* Python truth of an optional string: neither None nor ""
Truthy(v) == v # None /\ v # <<>>

\* s[:n]
Prefix(s, n) == SubSeq(s, 1, IF Len(s) < n THEN Len(s) ELSE n)

\* sub in s
Contains(s, sub) ==
    \E i \in 1..(Len(s) - Len(sub) + 1) : SubSeq(s, i, i + Len(sub) - 1) = sub

\* s.endswith(sub)
EndsWith(s, sub) ==
    Len(s) >= Len(sub) /\ SubSeq(s, Len(s) - Len(sub) + 1, Len(s)) = sub

LowerOf == [c \in {"A", "X", "Q"} |->
               CASE c = "A" -> "a" [] c = "X" -> "x" [] c = "Q" -> "q"]

\* str.isupper() and str.islower() of one character
IsUpperChar(c) == c \in DOMAIN LowerOf
IsLowerChar(c) == c \in {"a", "b", "c", "d", "e", "i", "l", "m", "o", "q", "r",
                         "s", "t", "u", "v", "x", "y", "z"}

\* str.upper() of one character: a string
UpperChar(c) ==
    IF \E u \in DOMAIN LowerOf : LowerOf[u] = c
    THEN <<CHOOSE u \in DOMAIN LowerOf : LowerOf[u] = c>>
    ELSE <<c>>


---------------------------------------------------------------------------
(* Documents: an ElementTree.  Nodes are 1..n, the root is node 1; a node  *)
(* has a tag, an ordered list of children, and the two optional text       *)
(* slots text and tail.  The root of a parsed document has no tail.  The   *)
(* documents are indented: an element with no text has text None, and a    *)
(* child followed by no text has the whitespace of the indentation as tail.*)

MaxTexts == 2

\* the shapes of the input trees: for every node, the list of its children
Shapes == { << <<>> >>,
            << <<2>>, <<>> >>,
            << <<2, 3>>, <<>>, <<>> >>,
            << <<2>>, <<3>>, <<>> >> }

Slash == <<"/">>
TailWord == <<"t", "a", "i", "l">>

RootTag == <<"b">>
Tags == {<<"p">>, TailWord}

WsOnly   == <<"\n", " ">>
ShortTxt == <<" ", "a", "b", " ">>
LongTxt  == <<" ", "A", "b", "c", "\n">>
KeyTxt   == <<"d", "u", "s", "a">>
TextValues == {ShortTxt, LongTxt, KeyTxt}

Slots(n) == {<<i, "text">> : i \in 1..n} \cup {<<i, "tail">> : i \in 2..n}

\* every way to fill at most MaxTexts slots of an n-node tree
SlotTexts(n) ==
    UNION {[Z -> TextValues] : Z \in {Y \in SUBSET Slots(n) : Cardinality(Y) <= MaxTexts}}

\* the attributes of the elements: the first child carries an id
AttribOf(i) == IF i = 2 THEN {<<"id", "n2">>} ELSE {}

DocOf(n, kids, tg, f) ==
    [tag  |-> [i \in 1..n |-> IF i = 1 THEN RootTag ELSE tg[i]],
     attrib |-> [i \in 1..n |-> AttribOf(i)],
     kids |-> kids,
     text |-> [i \in 1..n |-> IF <<i, "text">> \in DOMAIN f THEN f[<<i, "text">>] ELSE None],
     tail |-> [i \in 1..n |-> IF <<i, "tail">> \in DOMAIN f THEN f[<<i, "tail">>]
                              ELSE IF i = 1 THEN None ELSE WsOnly]]

\* a word of the reference dictionary whose translation is another word
MirTxt == <<"m", "i", "r">>

\* the input trees: the only child of a two-node tree has either tag, the
\* elements of the larger trees are all <p>; and one tree that is a single
\* element with a dictionary word
Documents ==
    UNION { UNION { {DocOf(Len(kids), kids, tg, f) : f \in SlotTexts(Len(kids))}
        : tg \in {t \in [2..Len(kids) -> Tags] :
                    Len(kids) > 2 => \A i \in 2..Len(kids) : t[i] = <<"p">>} }
        : kids \in Shapes }
    \cup {DocOf(1, << <<>> >>, <<>>, [z \in {<<1, "text">>} |-> MirTxt])}

NodesOf(d) == 1..Len(d.tag)

---------------------------------------------------------------------------
(* The translation backend (googletrans): a call returns some text or      *)
(* raises.  The kind of the failure is the backend's; the scripts catch    *)
(* Exception and never look at it.                                         *)

FailureKinds == {"RateLimited", "Timeout", "Unavailable", "Malformed"}
Transient == {"RateLimited", "Timeout"}

\* how often the backend raises in one run, at most
MaxRaises == 3

Xyz == <<"x", "y", "z">>
Qrs == <<"q", "r", "s">>

\* str.lower()
LowerStr(s) == [i \in 1..Len(s) |-> IF s[i] \in DOMAIN LowerOf THEN LowerOf[s[i]] ELSE s[i]]

\* the texts the backend may return for txt: a translation or nothing for a
\* source text, another rendering for its own earlier output, and in the end
\* its input unchanged
BackendTexts(txt) ==
    IF LowerStr(Strip(txt)) = Xyz THEN {Qrs}
    ELSE IF LowerStr(Strip(txt)) = Qrs THEN {Qrs}
    ELSE {Xyz, <<>>}

---------------------------------------------------------------------------
(* Legacy/high_quality_fb2_translator.py: AdvancedFB2Translator            *)

Retries == 3
ErrTextLen == 30

\* self.reference_translations ("мир": "свет", "свет": "светлост/...", "душа": "душа")
reference_translations ==
    [k \in {<<"m", "i", "r">>, <<"s", "v", "e", "t">>, KeyTxt} |->
        CASE k = <<"m", "i", "r">> -> <<"s", "v", "e", "t">>
          [] k = <<"s", "v", "e", "t">> -> <<"s", "v", "e", "t", "l", "o", "s", "t">>
          [] k = KeyTxt -> KeyTxt]

\* str.replace(old, new) for one-character old and new
ReplaceChar(s, old, new) == [i \in 1..Len(s) |-> IF s[i] = old THEN new ELSE s[i]]

\* a faulty enhance_translation that adds the line end without looking whether
\* it is already there (the idempotence property must reject it)
EnhanceAlwaysAppends(txt, translated, context) ==
    LET e3 == IF EndsWith(txt, <<"\n">>) THEN translated \o <<"\n">> ELSE translated
    IN  IF e3 # <<>> /\ IsLowerChar(e3[1]) /\ txt # <<>> /\ IsUpperChar(txt[1])
        THEN UpperChar(e3[1]) \o Tail(e3)
        ELSE e3

\* a faulty enhance_translation that raises the first letter whatever the
\* source begins with
EnhanceAlwaysCapitalizes(txt, translated, context) ==
    LET e3 == IF EndsWith(txt, <<"\n">>) /\ ~EndsWith(translated, <<"\n">>)
              THEN translated \o <<"\n">>
              ELSE translated
    IN  IF e3 # <<>> /\ IsLowerChar(e3[1])
        THEN UpperChar(e3[1]) \o Tail(e3)
        ELSE e3

\* a faulty enhance_translation whose apostrophe repair turns the
\* apostrophes of the translation into double quotes
EnhanceRewritesQuotes(txt, translated, context) ==
    LET e2 == IF Contains(txt, <<"\"">>) /\ ~Contains(translated, <<"\"">>)
              THEN ReplaceChar(translated, "'", "\"")
              ELSE translated
        e3 == IF EndsWith(txt, <<"\n">>) /\ ~EndsWith(e2, <<"\n">>)
              THEN e2 \o <<"\n">>
              ELSE e2
    IN  IF e3 # <<>> /\ IsLowerChar(e3[1]) /\ txt # <<>> /\ IsUpperChar(txt[1])
        THEN UpperChar(e3[1]) \o Tail(e3)
        ELSE e3

enhance_translation(txt, translated, context) ==
    LET e1 == IF Contains(txt, <<"\"">>) /\ ~Contains(translated, <<"\"">>)
              THEN ReplaceChar(ReplaceChar(translated, "\"", "\""), "\"", "\"")
              ELSE translated
        e2 == IF Contains(txt, <<"'">>) /\ ~Contains(e1, <<"'">>)
              THEN ReplaceChar(e1, "'", "'")
              ELSE e1
        e3 == IF EndsWith(txt, <<"\n">>) /\ ~EndsWith(e2, <<"\n">>)
              THEN e2 \o <<"\n">>
              ELSE e2
    IN  IF e3 # <<>> /\ IsLowerChar(e3[1]) /\ txt # <<>> /\ IsUpperChar(txt[1])
        THEN UpperChar(e3[1]) \o Tail(e3)
        ELSE e3

\* range(retries)
AttemptRange(retries) == 0..(retries - 1)

Bump(stats, counter) == [stats EXCEPT ![counter] = @ + 1]

\* a faulty cache that holds one entry only and drops the older one
CachePutEvicts(cache, key, value) == [k \in {key} |-> value]

CachePut(cache, key, value) ==
    [k \in DOMAIN cache \cup {key} |-> IF k = key THEN value ELSE cache[k]]

\* a faulty translate_with_context that does not look into the dictionary
\* (the dictionary property must reject it)
TwcEntryNoDictionary(txt, context, stats, cache) ==
    IF ~Truthy(txt) \/ Strip(txt) = <<>>
    THEN [done |-> TRUE, value |-> txt, stats |-> stats, cache |-> cache]
    ELSE IF <<txt, context>> \in DOMAIN cache
    THEN [done |-> TRUE, value |-> cache[<<txt, context>>],
          stats |-> Bump(stats, "cached"), cache |-> cache]
    ELSE IF ~translate_enabled
    THEN [done |-> TRUE, value |-> None, stats |-> stats, cache |-> cache]
    ELSE [done |-> FALSE, value |-> None, stats |-> stats, cache |-> cache]

\* a faulty translate_with_context that goes to the dictionary and the backend
\* without looking into the cache (the cache property must reject it)
TwcEntryNoCache(txt, context, stats, cache) ==
    IF ~Truthy(txt) \/ Strip(txt) = <<>>
    THEN [done |-> TRUE, value |-> txt, stats |-> stats, cache |-> cache]
    ELSE IF txt \in DOMAIN reference_translations
    THEN [done |-> TRUE, value |-> reference_translations[txt],
          stats |-> Bump(stats, "translated"),
          cache |-> CachePut(cache, <<txt, context>>, reference_translations[txt])]
    ELSE IF ~translate_enabled
    THEN [done |-> TRUE, value |-> None, stats |-> stats, cache |-> cache]
    ELSE [done |-> FALSE, value |-> None, stats |-> stats, cache |-> cache]

\* translate_with_context up to its retry loop: either it returns at once
\* (done, with the value returned) or it goes on to call the backend.
TwcEntry(txt, context, stats, cache) ==
    IF ~Truthy(txt) \/ Strip(txt) = <<>>
    THEN [done |-> TRUE, value |-> txt, stats |-> stats, cache |-> cache]
    ELSE IF <<txt, context>> \in DOMAIN cache
    THEN [done |-> TRUE, value |-> cache[<<txt, context>>],
          stats |-> Bump(stats, "cached"), cache |-> cache]
    ELSE IF txt \in DOMAIN reference_translations
    THEN [done |-> TRUE, value |-> reference_translations[txt],
          stats |-> Bump(stats, "translated"),
          cache |-> CachePut(cache, <<txt, context>>, reference_translations[txt])]
    ELSE IF ~translate_enabled
    THEN [done |-> TRUE, value |-> None, stats |-> stats, cache |-> cache]
    ELSE [done |-> FALSE, value |-> None, stats |-> stats, cache |-> cache]

\* the slots process_element_translations visits, in the order it visits them
RECURSIVE FB2Walk(_, _, _), FB2Children(_, _, _, _)
FB2Walk(d, element, context) ==
    LET tailVisit == [node |-> element, slot |-> "tail", context |-> context \o Slash \o TailWord]
    IN  <<[node |-> element, slot |-> "text", context |-> context]>>
        \o FB2Children(d, element, context, 1)
        \o <<tailVisit>>
        \o FB2Children(d, element, context, 1)
        \o <<tailVisit>>
FB2Children(d, element, context, i) ==
    IF i > Len(d.kids[element]) THEN <<>>
    ELSE LET child == d.kids[element][i]
             child_context == IF context # <<>> THEN context \o Slash \o d.tag[child]
                              ELSE d.tag[child]
         IN  FB2Walk(d, child, child_context) \o FB2Children(d, element, context, i + 1)

SlotVal(v) == IF v.slot = "text" THEN text[v.node] ELSE tail[v.node]

\* a faulty threshold that lets a trimmed length of 2 through
\* (the substance-threshold property must reject it)
FB2SubmitsFrom2(cur) == Truthy(cur) /\ Strip(cur) # <<>> /\ Len(Strip(cur)) >= 2

\* a slot is submitted: "if element.text and element.text.strip()" and "len(text) > 2"
FB2Submits(cur) == Truthy(cur) /\ Strip(cur) # <<>> /\ Len(Strip(cur)) > 2

\* "if translation: element.text = translation else: element.text = text"
FB2Written(txt, translation) == IF Truthy(translation) THEN translation ELSE txt

SetSlot(v, value) ==
    /\ text' = IF v.slot = "text" THEN [text EXCEPT ![v.node] = value] ELSE text
    /\ tail' = IF v.slot = "tail" THEN [tail EXCEPT ![v.node] = value] ELSE tail

\* the state of the copying scripts in a run of another script
NoCopyState ==
    /\ new_tree = None
    /\ target_script = "cyrillic"

\* the state of translate_llm_only.py in a run of another script
NoMdState ==
    /\ provider = "none"
    /\ model_file = FALSE
    /\ environment = [llama_binary |-> FALSE, gguf |-> FALSE, config |-> "none"]
    /\ invoked = <<>>
    /\ paragraphs = <<>>
    /\ translated_paragraphs = <<>>
    /\ failed_paragraphs = 0
    /\ stdout = None
    /\ success = "None"

\* the translator after __init__ and the tree after ET.parse; the input trees
\* have no description element, so update_document_metadata changes nothing
FB2Init ==
    /\ prog = "fb2"
    /\ doc \in Documents
    /\ text = doc.text
    /\ tail = doc.tail
    /\ pc = "walk"
    /\ todo = FB2Walk(doc, 1, <<>>)
    /\ attempt = 0
    /\ translate_enabled \in BOOLEAN
    /\ translation_cache = <<>>
    /\ translation_stats = [total |-> 0, translated |-> 0, errors |-> 0, cached |-> 0]
    /\ errors = <<>>
    /\ translation_count = 0
    /\ error_count = 0
    /\ ret = None
    /\ calls = 0
    /\ lastKind = "none"
    /\ raises = 0
    /\ fromBackend = {}
    /\ submitted = <<>>
    /\ NoMdState
    /\ NoCopyState
    /\ written = FALSE
    /\ NoListState

\* one "Process element text" / "Process tail text" block, up to the backend call
FB2Slot ==
    /\ prog = "fb2" /\ pc = "walk" /\ todo # <<>>
    /\ LET v   == Head(todo)
           cur == SlotVal(v)
           txt == Strip(cur)
           r   == TwcEntry(txt, v.context, Bump(translation_stats, "total"), translation_cache)
       IN  IF ~FB2Submits(cur)
           THEN /\ todo' = Tail(todo)
                /\ ret' = None /\ calls' = 0 /\ lastKind' = "none"
                /\ UNCHANGED <<text, tail, pc, attempt, translation_cache,
                               translation_stats, errors, submitted>>
           ELSE /\ submitted' = Append(submitted, [node |-> v.node, slot |-> v.slot,
                                                   text |-> txt, context |-> v.context])
                /\ translation_stats' = r.stats
                /\ translation_cache' = r.cache
                /\ calls' = 0
                /\ lastKind' = "none"
                /\ attempt' = 0
                /\ UNCHANGED errors
                /\ IF r.done
                   THEN /\ SetSlot(v, FB2Written(txt, r.value))
                        /\ ret' = r.value
                        /\ todo' = Tail(todo)
                        /\ pc' = "walk"
                   ELSE /\ pc' = "backend"
                        /\ UNCHANGED <<text, tail, ret, todo>>
    /\ UNCHANGED <<mdOwn, copyOwn, prog, doc, translate_enabled, raises, fromBackend, counters>>
    /\ UNCHANGED written
    /\ UNCHANGED listOwn

\* self.translator.translate(...) returns: enhance, cache, count, return
FB2BackendReturns ==
    /\ prog = "fb2" /\ pc = "backend"
    /\ \E out \in BackendTexts(Strip(SlotVal(Head(todo)))) :
        LET v   == Head(todo)
            txt == Strip(SlotVal(v))
            enhanced_translation == enhance_translation(txt, out, v.context)
        IN  /\ translation_cache' = CachePut(translation_cache, <<txt, v.context>>, enhanced_translation)
            /\ translation_stats' = Bump(translation_stats, "translated")
            /\ fromBackend' = fromBackend \cup {<<txt, v.context>>}
            /\ calls' = calls + 1
            /\ lastKind' = "ok"
            /\ ret' = enhanced_translation
            /\ SetSlot(v, FB2Written(txt, enhanced_translation))
            /\ todo' = Tail(todo)
            /\ pc' = "walk"
    /\ UNCHANGED <<mdOwn, copyOwn, prog, doc, attempt, translate_enabled, errors, raises, submitted, counters>>
    /\ UNCHANGED written
    /\ UNCHANGED listOwn

\* a faulty translate_with_context without the try around the backend call:
\* the exception leaves process_element_translations and ends the run
FB2BackendRaisesAborts ==
    /\ prog = "fb2" /\ pc = "backend"
    /\ raises < MaxRaises
    /\ raises' = raises + 1
    /\ calls' = calls + 1
    /\ \E kind \in FailureKinds : lastKind' = kind
    /\ pc' = "failed"
    /\ UNCHANGED <<mdOwn, copyOwn, prog, doc, text, tail, todo, attempt, translate_enabled,
                   fb2Own, ret, submitted, counters>>
    /\ UNCHANGED written
    /\ UNCHANGED listOwn

\* self.translator.translate(...) raises: retry, or give up after the last attempt
FB2BackendRaises ==
    /\ prog = "fb2" /\ pc = "backend"
    /\ raises < MaxRaises
    /\ raises' = raises + 1
    /\ \E kind \in FailureKinds :
        LET v   == Head(todo)
            txt == Strip(SlotVal(v))
        IN  /\ calls' = calls + 1
            /\ lastKind' = kind
            /\ IF attempt = Retries - 1
               THEN /\ errors' = Append(errors, Prefix(txt, ErrTextLen))
                    /\ translation_stats' = Bump(translation_stats, "errors")
                    /\ ret' = None
                    /\ SetSlot(v, FB2Written(txt, None))
                    /\ todo' = Tail(todo)
                    /\ pc' = "walk"
                    /\ UNCHANGED attempt
               ELSE IF attempt + 1 \in AttemptRange(Retries)
               THEN /\ attempt' = attempt + 1
                    /\ UNCHANGED <<errors, translation_stats, ret, text, tail, todo, pc>>
               ELSE \* the loop ends: "return None"
                    /\ ret' = None
                    /\ SetSlot(v, FB2Written(txt, None))
                    /\ todo' = Tail(todo)
                    /\ pc' = "walk"
                    /\ UNCHANGED <<attempt, errors, translation_stats>>
    /\ UNCHANGED <<mdOwn, copyOwn, prog, doc, translate_enabled, translation_cache, fromBackend, submitted, counters>>
    /\ UNCHANGED written
    /\ UNCHANGED listOwn

\* write_enhanced_xml: the walk is over
FB2Write ==
    /\ prog = "fb2" /\ pc = "walk" /\ todo = <<>>
    /\ pc' = "done"
    /\ UNCHANGED <<mdOwn, copyOwn, prog, doc, text, tail, todo, attempt, translate_enabled,
                   translation_cache, translation_stats, errors, ret, calls,
                   lastKind, raises, fromBackend, submitted, counters>>
    /\ written' = TRUE
    /\ UNCHANGED listOwn

FB2Next == FB2Slot \/ FB2BackendReturns \/ FB2BackendRaises \/ FB2Write

SpecFB2 == FB2Init /\ [][FB2Next]_vars

---------------------------------------------------------------------------
(* The scripts that walk the tree once: own text, children, tail           *)

RECURSIVE Walk(_, _), WalkChildren(_, _, _)
Walk(d, element) ==
    <<[node |-> element, slot |-> "text"]>>
    \o WalkChildren(d, element, 1)
    \o <<[node |-> element, slot |-> "tail"]>>
WalkChildren(d, element, i) ==
    IF i > Len(d.kids[element]) THEN <<>>
    ELSE Walk(d, d.kids[element][i]) \o WalkChildren(d, element, i + 1)

\* the state the scripts without a cache leave alone
NoFB2State ==
    /\ translation_cache = <<>>
    /\ translation_stats = [total |-> 0, translated |-> 0, errors |-> 0, cached |-> 0]
    /\ errors = <<>>
    /\ fromBackend = {}

TreeInit(p, schedule) ==
    /\ prog = p
    /\ doc \in Documents
    /\ text = doc.text
    /\ tail = doc.tail
    /\ pc = "walk"
    /\ todo = schedule
    /\ attempt = 0
    /\ NoFB2State
    /\ translation_count = 0
    /\ error_count = 0
    /\ ret = None
    /\ calls = 0
    /\ lastKind = "none"
    /\ raises = 0
    /\ submitted = <<>>
    /\ NoMdState
    /\ written = FALSE
    /\ NoListState

\* tree.write(...): the walk is over
WriteTree(p) ==
    /\ prog = p /\ pc = "walk" /\ todo = <<>>
    /\ pc' = "done"
    /\ UNCHANGED <<mdOwn, copyOwn, prog, doc, text, tail, todo, attempt, translate_enabled, fb2Own,
                   counters, ret, calls, lastKind, raises, submitted>>
    /\ written' = TRUE
    /\ UNCHANGED listOwn

---------------------------------------------------------------------------
(* Legacy/fb2_translator.py: try_automatic_translation (googletrans is     *)
(* importable; without it the script writes a template instead)            *)

max_retries == 3

AutoSubmits(cur) == Truthy(cur) /\ Strip(cur) # <<>> /\ Len(Strip(cur)) > 3

AutoInit ==
    /\ TreeInit("auto", Walk(doc, 1))
    /\ NoCopyState
    /\ translate_enabled = TRUE

\* one "Process element text" / "Process tail text" block of process_element,
\* up to the first backend call of translate_with_retry
AutoSlot ==
    /\ prog = "auto" /\ pc = "walk" /\ todo # <<>>
    /\ LET v   == Head(todo)
           cur == SlotVal(v)
       IN  IF ~AutoSubmits(cur)
           THEN /\ todo' = Tail(todo)
                /\ ret' = None
                /\ UNCHANGED <<pc, submitted>>
           ELSE /\ submitted' = Append(submitted, [node |-> v.node, slot |-> v.slot,
                                                   text |-> Strip(cur)])
                /\ pc' = "backend"
                /\ UNCHANGED <<todo, ret>>
    /\ calls' = 0 /\ lastKind' = "none" /\ attempt' = 0
    /\ UNCHANGED <<mdOwn, copyOwn, prog, doc, text, tail, translate_enabled, fb2Own, counters, raises>>
    /\ UNCHANGED written
    /\ UNCHANGED listOwn

\* translator.translate(text, dest='sr') returns: "return result.text"
AutoBackendReturns ==
    /\ prog = "auto" /\ pc = "backend"
    /\ \E out \in BackendTexts(Strip(SlotVal(Head(todo)))) :
        /\ ret' = out
        /\ SetSlot(Head(todo), out)
    /\ translation_count' = translation_count + 1
    /\ calls' = calls + 1
    /\ lastKind' = "ok"
    /\ todo' = Tail(todo)
    /\ pc' = "walk"
    /\ UNCHANGED <<mdOwn, copyOwn, prog, doc, attempt, translate_enabled, fb2Own, error_count,
                   raises, submitted>>
    /\ UNCHANGED written
    /\ UNCHANGED listOwn

\* translator.translate raises: "continue", or "return text" after the last attempt
AutoBackendRaises ==
    /\ prog = "auto" /\ pc = "backend"
    /\ raises < MaxRaises
    /\ raises' = raises + 1
    /\ calls' = calls + 1
    /\ \E kind \in FailureKinds : lastKind' = kind
    /\ LET v   == Head(todo)
           txt == Strip(SlotVal(v))
       IN  IF attempt = max_retries - 1 \/ attempt + 1 \notin AttemptRange(max_retries)
           THEN /\ ret' = txt
                /\ SetSlot(v, txt)
                /\ translation_count' = translation_count + 1
                /\ todo' = Tail(todo)
                /\ pc' = "walk"
                /\ UNCHANGED attempt
           ELSE /\ attempt' = attempt + 1
                /\ UNCHANGED <<ret, text, tail, translation_count, todo, pc>>
    /\ UNCHANGED <<mdOwn, copyOwn, prog, doc, translate_enabled, fb2Own, error_count, submitted>>
    /\ UNCHANGED written
    /\ UNCHANGED listOwn

AutoWrite == WriteTree("auto")

AutoNext == AutoSlot \/ AutoBackendReturns \/ AutoBackendRaises \/ AutoWrite

---------------------------------------------------------------------------
(* Legacy/translate_fb2_direct.py: translate_fb2_direct                    *)

\* translate_text returns its argument untouched
DirectPassesThrough(cur) == ~Truthy(cur) \/ Strip(cur) = <<>> \/ Len(Strip(cur)) <= 2

DirectInit ==
    /\ TreeInit("direct", Walk(doc, 1))
    /\ NoCopyState
    /\ translate_enabled \in BOOLEAN

\* "if element.text: element.text = translate_text(element.text)", up to the backend call
DirectSlot ==
    /\ prog = "direct" /\ pc = "walk" /\ todo # <<>>
    /\ LET v   == Head(todo)
           cur == SlotVal(v)
       IN  IF ~Truthy(cur)
           THEN /\ todo' = Tail(todo)
                /\ ret' = None
                /\ UNCHANGED <<text, tail, pc, submitted>>
           ELSE IF DirectPassesThrough(cur)
           THEN /\ SetSlot(v, cur)
                /\ ret' = cur
                /\ todo' = Tail(todo)
                /\ UNCHANGED <<pc, submitted>>
           ELSE /\ submitted' = Append(submitted, [node |-> v.node, slot |-> v.slot,
                                                   text |-> cur])
                /\ IF ~translate_enabled
                   THEN /\ SetSlot(v, cur)
                        /\ ret' = cur
                        /\ todo' = Tail(todo)
                        /\ UNCHANGED pc
                   ELSE /\ pc' = "backend"
                        /\ UNCHANGED <<text, tail, ret, todo>>
    /\ calls' = 0 /\ lastKind' = "none"
    /\ UNCHANGED <<mdOwn, copyOwn, prog, doc, attempt, translate_enabled, fb2Own, counters, raises>>
    /\ UNCHANGED written
    /\ UNCHANGED listOwn

\* translator.translate(text, dest='sr', src='ru') returns
DirectBackendReturns ==
    /\ prog = "direct" /\ pc = "backend"
    /\ \E out \in BackendTexts(SlotVal(Head(todo))) :
        /\ ret' = out
        /\ SetSlot(Head(todo), out)
    /\ translation_count' = translation_count + 1
    /\ calls' = calls + 1
    /\ lastKind' = "ok"
    /\ todo' = Tail(todo)
    /\ pc' = "walk"
    /\ UNCHANGED <<mdOwn, copyOwn, prog, doc, attempt, translate_enabled, fb2Own, error_count,
                   raises, submitted>>
    /\ UNCHANGED written
    /\ UNCHANGED listOwn

\* translator.translate raises: count the error and return the text
DirectBackendRaises ==
    /\ prog = "direct" /\ pc = "backend"
    /\ raises < MaxRaises
    /\ raises' = raises + 1
    /\ calls' = calls + 1
    /\ \E kind \in FailureKinds : lastKind' = kind
    /\ error_count' = error_count + 1
    /\ ret' = SlotVal(Head(todo))
    /\ SetSlot(Head(todo), SlotVal(Head(todo)))
    /\ todo' = Tail(todo)
    /\ pc' = "walk"
    /\ UNCHANGED <<mdOwn, copyOwn, prog, doc, attempt, translate_enabled, fb2Own, translation_count,
                   submitted>>
    /\ UNCHANGED written
    /\ UNCHANGED listOwn

DirectWrite == WriteTree("direct")

DirectNext == DirectSlot \/ DirectBackendReturns \/ DirectBackendRaises \/ DirectWrite

---------------------------------------------------------------------------
(* Legacy/chunk_translate.py: process_text_chunks                          *)

TranslateOpen == <<"[", "T", "R", "A", "N", "S", "L", "A", "T", "E", ":", " ">>

\* f"[TRANSLATE: {text}]"
TranslateMarked(txt) == TranslateOpen \o txt \o <<"]">>

\* find_text_elements: the (element, path, text) entries in the order they are
\* appended; slot records which slot the text was read from
RECURSIVE find_text_elements(_, _, _), FindInChildren(_, _, _, _)
find_text_elements(d, element, path) ==
    (IF Truthy(d.text[element]) /\ Strip(d.text[element]) # <<>>
     THEN <<[element |-> element, path |-> path \o Slash \o d.tag[element],
             text |-> d.text[element], slot |-> "text"]>>
     ELSE <<>>)
    \o (IF Truthy(d.tail[element]) /\ Strip(d.tail[element]) # <<>>
        THEN <<[element |-> element,
                path |-> path \o Slash \o d.tag[element] \o Slash \o TailWord,
                text |-> d.tail[element], slot |-> "tail"]>>
        ELSE <<>>)
    \o FindInChildren(d, element, path, 1)
FindInChildren(d, element, path, i) ==
    IF i > Len(d.kids[element]) THEN <<>>
    ELSE find_text_elements(d, d.kids[element][i], path \o Slash \o d.tag[element])
         \o FindInChildren(d, element, path, i + 1)

\* "if "/tail" in path": the entry is handled as a tail
TreatedAsTail(path) == Contains(path, Slash \o TailWord)

\* the slot an entry's result is written to
ChunkTarget(e) ==
    [node |-> e.element, slot |-> IF TreatedAsTail(e.path) THEN "tail" ELSE "text"]

ChunksInit ==
    /\ TreeInit("chunks", find_text_elements(doc, 1, <<>>))
    /\ NoCopyState
    /\ translate_enabled \in BOOLEAN

\* one round of "for element, path, text in text_elements", up to the backend call
ChunksEntry ==
    /\ prog = "chunks" /\ pc = "walk" /\ todo # <<>>
    /\ LET e == Head(todo)
       IN  /\ submitted' = Append(submitted, [node |-> e.element, slot |-> e.slot,
                                              text |-> e.text])
           /\ IF ~translate_enabled
              THEN /\ SetSlot(ChunkTarget(e), TranslateMarked(e.text))
                   /\ todo' = Tail(todo)
                   /\ UNCHANGED pc
              ELSE /\ pc' = "backend"
                   /\ UNCHANGED <<text, tail, todo>>
    /\ calls' = 0 /\ lastKind' = "none"
    /\ UNCHANGED <<mdOwn, copyOwn, prog, doc, attempt, translate_enabled, fb2Own, counters, ret, raises>>
    /\ UNCHANGED written
    /\ UNCHANGED listOwn

\* translator.translate(text.strip(), dest='sr') returns
ChunksBackendReturns ==
    /\ prog = "chunks" /\ pc = "backend"
    /\ \E out \in BackendTexts(Strip(Head(todo).text)) :
        SetSlot(ChunkTarget(Head(todo)), out)
    /\ calls' = calls + 1
    /\ lastKind' = "ok"
    /\ todo' = Tail(todo)
    /\ pc' = "walk"
    /\ UNCHANGED <<mdOwn, copyOwn, prog, doc, attempt, translate_enabled, fb2Own, counters, ret,
                   raises, submitted>>
    /\ UNCHANGED written
    /\ UNCHANGED listOwn

\* translator.translate raises: the slot gets the marked original
ChunksBackendRaises ==
    /\ prog = "chunks" /\ pc = "backend"
    /\ raises < MaxRaises
    /\ raises' = raises + 1
    /\ calls' = calls + 1
    /\ \E kind \in FailureKinds : lastKind' = kind
    /\ SetSlot(ChunkTarget(Head(todo)), TranslateMarked(Head(todo).text))
    /\ todo' = Tail(todo)
    /\ pc' = "walk"
    /\ UNCHANGED <<mdOwn, copyOwn, prog, doc, attempt, translate_enabled, fb2Own, counters, ret, submitted>>
    /\ UNCHANGED written
    /\ UNCHANGED listOwn

ChunksWrite == WriteTree("chunks")

ChunksNext == ChunksEntry \/ ChunksBackendReturns \/ ChunksBackendRaises \/ ChunksWrite

---------------------------------------------------------------------------
(* internal/scripts/translate_llm_only.py: main, translate_markdown_file   *)

StartsWith(s, pre) == Len(s) >= Len(pre) /\ SubSeq(s, 1, Len(pre)) = pre

\* s.split(sep, 1)[1] for a sep that occurs in s
AfterFirst(s, sep) ==
    LET i == CHOOSE k \in 1..(Len(s) - Len(sep) + 1) :
                /\ SubSeq(s, k, k + Len(sep) - 1) = sep
                /\ \A j \in 1..(k - 1) : SubSeq(s, j, j + Len(sep) - 1) # sep
    IN  SubSeq(s, i + Len(sep), Len(s))

\* s.split('\n')
RECURSIVE SplitLines(_)
SplitLines(s) ==
    IF \A i \in 1..Len(s) : s[i] # "\n" THEN <<s>>
    ELSE LET i == CHOOSE k \in 1..Len(s) : s[k] = "\n" /\ \A j \in 1..(k - 1) : s[j] # "\n"
         IN  <<SubSeq(s, 1, i - 1)>> \o SplitLines(SubSeq(s, i + 1, Len(s)))

\* '\n'.join(lines)
RECURSIVE JoinLines(_)
JoinLines(lines) ==
    IF lines = <<>> THEN <<>>
    ELSE IF Len(lines) = 1 THEN lines[1]
    ELSE lines[1] \o <<"\n">> \o JoinLines(Tail(lines))

\* the two marker strings of the prompt, "Serbian translation:" and
\* "Original text:", shortened to two characters each
SerbianMarker == <<"S", ":">>
OriginalMarker == <<"O", ":">>

EchoLen == 20

\* the loop "for line in lines" of translate_with_llamacpp: the result_lines it
\* leaves, given whether translation_started and the result_lines so far
RECURSIVE ScanLines(_, _, _, _)
ScanLines(lines, txt, translation_started, result_lines) ==
    IF lines = <<>> THEN result_lines
    ELSE LET line == Head(lines)
         IN  IF Contains(line, SerbianMarker)
             THEN ScanLines(Tail(lines), txt, TRUE,
                            IF Strip(AfterFirst(line, SerbianMarker)) # <<>>
                            THEN Append(result_lines, Strip(AfterFirst(line, SerbianMarker)))
                            ELSE result_lines)
             ELSE IF translation_started /\ Strip(line) # <<>>
             THEN IF Contains(line, OriginalMarker) \/ StartsWith(line, Prefix(txt, EchoLen))
                  THEN result_lines
                  ELSE ScanLines(Tail(lines), txt, translation_started,
                                 Append(result_lines, Strip(line)))
             ELSE ScanLines(Tail(lines), txt, translation_started, result_lines)

\* a faulty extraction that takes the whole output when it finds no marker
\* (the no-marker property must reject it)
ExtractOrWhole(out, txt) ==
    IF Contains(out, SerbianMarker)
    THEN Strip(JoinLines(ScanLines(SplitLines(out), txt, FALSE, <<>>)))
    ELSE Strip(out)

\* result_text of translate_with_llamacpp for the process output out
ExtractTranslation(out, txt) ==
    Strip(JoinLines(ScanLines(SplitLines(out), txt, FALSE, <<>>)))

\* a faulty translate_with_llamacpp that only rejects the exact input
\* (the echo property must reject it)
RejectsExactEchoOnly(out, txt) ==
    LET result_text == ExtractTranslation(out, txt)
    IN  IF result_text = <<>> \/ result_text = txt
        THEN [raised |-> TRUE, value |-> None]
        ELSE [raised |-> FALSE, value |-> result_text]

\* translate_with_llamacpp after the process has ended with return code 0:
\* the text it returns, or raised
translate_with_llamacpp(out, txt) ==
    LET result_text == ExtractTranslation(out, txt)
    IN  IF result_text = <<>> \/ LowerStr(result_text) = Prefix(LowerStr(txt), Len(result_text))
        THEN [raised |-> TRUE, value |-> None]
        ELSE [raised |-> FALSE, value |-> result_text]

\* translate_with_openai after the response has arrived with a good status
translate_with_openai(content, txt) ==
    LET translation == Strip(content)
    IN  IF translation = <<>> \/ LowerStr(translation) = LowerStr(txt)
        THEN [raised |-> TRUE, value |-> None]
        ELSE [raised |-> FALSE, value |-> translation]

Nl == <<"\n">>

\* what the llama.cpp process may print for the text txt
Stdouts(txt) ==
    { Xyz,
      <<>>,
      SerbianMarker \o <<" ">> \o Xyz,
      SerbianMarker \o Nl \o txt,
      SerbianMarker \o <<" ">> \o LowerStr(txt),
      SerbianMarker \o <<" ">> \o Prefix(LowerStr(txt), 2),
      OriginalMarker \o Nl \o txt \o Nl \o Nl \o SerbianMarker \o Nl \o Xyz \o Nl
          \o OriginalMarker \o Nl \o Qrs }

\* what the message content of an OpenAI response may be for the text txt
Contents(txt) == { <<" ">> \o Xyz \o Nl, txt, <<>> }

Providers == {"llamacpp", "openai", "anthropic", "none"}

\* what the script finds on the machine: find_llama_binary() finds a binary,
\* has_llama_model() finds a .gguf file, and the provider of config.json
\* that has an api_key ("none": no file, or no key in it)
Environments ==
    [llama_binary : BOOLEAN, gguf : BOOLEAN, config : {"none", "openai", "anthropic"}]

\* a faulty get_translation_provider that prefers the remote API
RemoteFirst ==
    IF environment.config = "openai" THEN "openai"
    ELSE IF environment.config = "anthropic" THEN "anthropic"
    ELSE IF environment.llama_binary /\ environment.gguf THEN "llamacpp"
    ELSE "none"

get_translation_provider ==
    IF environment.llama_binary /\ environment.gguf THEN "llamacpp"
    ELSE IF environment.config = "openai" THEN "openai"
    ELSE IF environment.config = "anthropic" THEN "anthropic"
    ELSE "none"

FailedOpen == <<"[", "T", "R", "A", "N", "S", "L", "A", "T", "I", "O", "N", " ", "F", "A", "I", "L", "E", "D", "]", " ">>

\* f"[TRANSLATION FAILED] {paragraph.strip()}"
FailedMarked(paragraph) == FailedOpen \o Strip(paragraph)

Header == <<"#", "a">>
Quote == <<">", "a">>
\* three backquotes, written with ~ for the backquote
CodeFence == <<"~", "~", "~">>
ParagraphValues == {<<>>, WsOnly, Header, Quote, CodeFence, LongTxt, KeyTxt}

MaxShort == 2
MaxParagraphs == 10

\* the paragraph lists of the runs: every short list, and long lists of
\* text paragraphs with or without a header in front
MdDocuments ==
    UNION {[1..n -> ParagraphValues] : n \in 1..MaxShort}
    \cup {[i \in 1..n |-> IF i <= s THEN Header ELSE LongTxt] :
            n \in (MaxParagraphs - 1)..MaxParagraphs, s \in 0..1}

\* "paragraph.startswith('#') or paragraph.startswith(three backquotes) or paragraph.startswith('>')"
Preserved(paragraph) ==
    \/ StartsWith(paragraph, <<"#">>)
    \/ StartsWith(paragraph, CodeFence)
    \/ StartsWith(paragraph, <<">">>)

\* "success_rate < 0.9" for success_rate = (n - failed) / n, in whole numbers
BelowThreshold(n, failed) == 10 * (n - failed) < 9 * n

\* the paragraph of the round in progress
Paragraph == paragraphs[Len(translated_paragraphs) + 1]

treeOwn == <<doc, text, tail, todo, attempt, translate_enabled, fb2Own, counters, copyOwn>>

MdInit ==
    /\ prog = "md"
    /\ environment \in Environments
    /\ model_file \in BOOLEAN
    \* the file of translate_with_llamacpp is a .gguf file of a directory
    \* has_llama_model() looks into
    /\ model_file => environment.gguf
    /\ provider = "none"
    /\ invoked = <<>>
    /\ paragraphs \in MdDocuments
    \* the long files are run where at most one provider is installed
    /\ Len(paragraphs) > MaxShort
        => /\ environment.llama_binary = environment.gguf
           /\ environment.llama_binary => environment.config = "none"
    /\ translated_paragraphs = <<>>
    /\ failed_paragraphs = 0
    /\ stdout = None
    /\ success = "None"
    /\ NoCopyState
    /\ pc = "main"
    /\ doc = DocOf(1, << <<>> >>, <<>>, <<>>)
    /\ text = doc.text
    /\ tail = doc.tail
    /\ todo = <<>>
    /\ attempt = 0
    /\ translate_enabled = FALSE
    /\ NoFB2State
    /\ translation_count = 0
    /\ error_count = 0
    /\ ret = None
    /\ calls = 0
    /\ lastKind = "none"
    /\ raises = 0
    /\ submitted = <<>>
    /\ written = FALSE
    /\ NoListState

\* main: without a provider the script exits before it translates anything
MdMain ==
    /\ prog = "md" /\ pc = "main"
    /\ provider' = get_translation_provider
    /\ pc' = IF get_translation_provider = "none" THEN "exit" ELSE "walk"
    /\ UNCHANGED <<treeOwn, prog, model_file, environment, invoked, paragraphs,
                   translated_paragraphs, failed_paragraphs, stdout, success,
                   ret, calls, lastKind, raises, submitted>>
    /\ UNCHANGED written
    /\ UNCHANGED listOwn

\* the except branch of the loop: count the paragraph as failed and mark it
MdFailed ==
    /\ failed_paragraphs' = failed_paragraphs + 1
    /\ translated_paragraphs' = Append(translated_paragraphs, FailedMarked(Paragraph))

\* a loop that takes a block quote for text to translate
MdParagraphSendsQuotes ==
    /\ prog = "md" /\ pc = "walk"
    /\ Len(translated_paragraphs) < Len(paragraphs)
    /\ calls' = 0
    /\ stdout' = None
    /\ invoked' = <<>>
    /\ IF Strip(Paragraph) = <<>> \/ StartsWith(Paragraph, <<"#">>) \/ StartsWith(Paragraph, CodeFence)
       THEN /\ translated_paragraphs' = Append(translated_paragraphs, Paragraph)
            /\ lastKind' = "none"
            /\ UNCHANGED <<failed_paragraphs, submitted, pc>>
       ELSE /\ submitted' = Append(submitted, [node |-> Len(translated_paragraphs) + 1,
                                               slot |-> "text", text |-> Strip(Paragraph)])
            /\ IF \/ get_translation_provider \notin {"llamacpp", "openai"}
                  \/ (get_translation_provider = "llamacpp" /\ ~model_file)
               THEN \* "No LLM translation provider available", "Unsupported
                    \* provider", "No working GGUF model found"
                    /\ MdFailed
                    /\ lastKind' = "Unavailable"
                    /\ UNCHANGED pc
               ELSE /\ pc' = "backend"
                    /\ lastKind' = "none"
                    /\ UNCHANGED <<translated_paragraphs, failed_paragraphs>>
    /\ UNCHANGED <<treeOwn, prog, provider, model_file, environment, paragraphs,
                   success, ret, raises>>
    /\ UNCHANGED written
    /\ UNCHANGED listOwn

\* one round of "for i, paragraph in enumerate(paragraphs)", up to the backend call
MdParagraph ==
    /\ prog = "md" /\ pc = "walk"
    /\ Len(translated_paragraphs) < Len(paragraphs)
    /\ calls' = 0
    /\ stdout' = None
    /\ invoked' = <<>>
    /\ IF Strip(Paragraph) = <<>> \/ Preserved(Paragraph)
       THEN /\ translated_paragraphs' = Append(translated_paragraphs, Paragraph)
            /\ lastKind' = "none"
            /\ UNCHANGED <<failed_paragraphs, submitted, pc>>
       ELSE /\ submitted' = Append(submitted, [node |-> Len(translated_paragraphs) + 1,
                                               slot |-> "text", text |-> Strip(Paragraph)])
            /\ IF \/ get_translation_provider \notin {"llamacpp", "openai"}
                  \/ (get_translation_provider = "llamacpp" /\ ~model_file)
               THEN \* "No LLM translation provider available", "Unsupported
                    \* provider", "No working GGUF model found"
                    /\ MdFailed
                    /\ lastKind' = "Unavailable"
                    /\ UNCHANGED pc
               ELSE /\ pc' = "backend"
                    /\ lastKind' = "none"
                    /\ UNCHANGED <<translated_paragraphs, failed_paragraphs>>
    /\ UNCHANGED <<treeOwn, prog, provider, model_file, environment, paragraphs,
                   success, ret, raises>>
    /\ UNCHANGED written
    /\ UNCHANGED listOwn

\* the process ends with return code 0, or the response arrives with a good status
MdBackendAnswers ==
    /\ prog = "md" /\ pc = "backend"
    /\ \E out \in (IF get_translation_provider = "llamacpp" THEN Stdouts(Strip(Paragraph))
                   ELSE Contents(Strip(Paragraph))) :
        LET r == IF get_translation_provider = "llamacpp" THEN translate_with_llamacpp(out, Strip(Paragraph))
                 ELSE translate_with_openai(out, Strip(Paragraph))
        IN  /\ stdout' = out
            /\ ret' = r.value
            /\ IF ~r.raised /\ Truthy(r.value) /\ r.value # Strip(Paragraph)
               THEN /\ translated_paragraphs' = Append(translated_paragraphs, r.value)
                    /\ lastKind' = "ok"
                    /\ UNCHANGED failed_paragraphs
               ELSE /\ MdFailed
                    /\ lastKind' = "Malformed"
    /\ calls' = calls + 1
    /\ invoked' = Append(invoked, get_translation_provider)
    /\ pc' = "walk"
    /\ UNCHANGED <<treeOwn, prog, provider, model_file, environment, paragraphs, success,
                   raises, submitted>>
    /\ UNCHANGED written
    /\ UNCHANGED listOwn

\* the process times out or ends with another return code, or the request fails
MdBackendRaises ==
    /\ prog = "md" /\ pc = "backend"
    /\ raises < MaxRaises
    /\ raises' = raises + 1
    /\ \E kind \in FailureKinds \ {"Malformed"} : lastKind' = kind
    /\ MdFailed
    /\ calls' = calls + 1
    /\ invoked' = Append(invoked, get_translation_provider)
    /\ pc' = "walk"
    /\ UNCHANGED <<treeOwn, prog, provider, model_file, environment, paragraphs, success, ret,
                   stdout, submitted>>
    /\ UNCHANGED written
    /\ UNCHANGED listOwn

\* a faulty end of translate_markdown_file that looks at the success rate
\* first and only writes the file of a run that succeeds
MdWriteAfterGate ==
    /\ prog = "md" /\ pc = "walk"
    /\ Len(translated_paragraphs) = Len(paragraphs)
    /\ IF BelowThreshold(Len(paragraphs), failed_paragraphs)
       THEN pc' = "done" /\ success' = "False" /\ UNCHANGED written
       ELSE pc' = "written" /\ written' = TRUE /\ UNCHANGED success
    /\ UNCHANGED <<treeOwn, prog, provider, model_file, environment, invoked, paragraphs,
                   translated_paragraphs, failed_paragraphs, stdout, ret, calls,
                   lastKind, raises, submitted, listOwn>>

\* "Write translated content": the paragraphs are joined and written
MdWrite ==
    /\ prog = "md" /\ pc = "walk"
    /\ Len(translated_paragraphs) = Len(paragraphs)
    /\ pc' = "written"
    /\ written' = TRUE
    /\ UNCHANGED listOwn
    /\ UNCHANGED <<treeOwn, prog, provider, model_file, environment, invoked, paragraphs,
                   translated_paragraphs, failed_paragraphs, stdout, success, ret, calls,
                   lastKind, raises, submitted>>

\* after the write the success rate decides what is returned
MdReturn ==
    /\ prog = "md" /\ pc = "written"
    /\ success' = IF BelowThreshold(Len(paragraphs), failed_paragraphs) THEN "False" ELSE "True"
    /\ pc' = "done"
    /\ UNCHANGED <<treeOwn, prog, provider, model_file, environment, invoked, paragraphs,
                   translated_paragraphs, failed_paragraphs, stdout, ret, calls,
                   lastKind, raises, submitted, written, listOwn>>

MdNext == MdMain \/ MdParagraph \/ MdBackendAnswers \/ MdBackendRaises \/ MdWrite \/ MdReturn

---------------------------------------------------------------------------
(* The scripts that copy the tree while they translate it:                 *)
(* Legacy/high_quality_translate.py (FB2Translator.process_element),       *)
(* Legacy/translate_fb2.py (process_element) and                           *)
(* Legacy/simple_translate.py (extract_and_translate_text)                 *)

CopyProgs == {"hq", "tfb2", "simple"}

\* s.rstrip()
RStrip(s) ==
    IF \A i \in 1..Len(s) : IsSpace(s[i]) THEN <<>>
    ELSE SubSeq(s, 1, CHOOSE k \in 1..Len(s) :
                        ~IsSpace(s[k]) /\ \A j \in (k + 1)..Len(s) : IsSpace(s[j]))

\* FB2Translator.post_process_translation
post_process_translation(translated, original) ==
    LET p1 == IF EndsWith(original, <<"\n">>) THEN RStrip(translated) \o <<"\n">>
              ELSE translated
        p2 == IF Contains(original, <<"\"">>) /\ ~Contains(p1, <<"\"">>)
              THEN ReplaceChar(p1, "\"", "\"")
              ELSE p1
    IN  IF Contains(original, <<"'">>) /\ ~Contains(p2, <<"'">>)
        THEN ReplaceChar(p2, "'", "'")
        ELSE p2

\* SERBIAN_CYRILLIC_TO_LATIN on the letters that stand for Cyrillic ones here;
\* some letters become two
SERBIAN_CYRILLIC_TO_LATIN ==
    [c \in {"x", "X", "q", "Q"} |->
        CASE c = "x" -> <<"l", "j">>
          [] c = "X" -> <<"L", "j">>
          [] c = "q" -> <<"k">>
          [] c = "Q" -> <<"K">>]

\* FB2Translator.convert_script
RECURSIVE ConvertChars(_)
ConvertChars(s) ==
    IF s = <<>> THEN <<>>
    ELSE (IF Head(s) \in DOMAIN SERBIAN_CYRILLIC_TO_LATIN
          THEN SERBIAN_CYRILLIC_TO_LATIN[Head(s)] ELSE <<Head(s)>>)
         \o ConvertChars(Tail(s))

\* a faulty convert_script that converts whatever the target script is
ConvertAlways(txt) == ConvertChars(txt)

convert_script(txt) == IF target_script = "latin" THEN ConvertChars(txt) ELSE txt

\* the slots the copying scripts visit, in order, each with the context of
\* high_quality_translate (parent_context + "/" + tag) and the parent node
RECURSIVE CopyWalk(_, _, _, _), CopyChildren(_, _, _, _)
CopyWalk(d, element, parent_context, parent) ==
    LET current_context == parent_context \o Slash \o d.tag[element]
    IN  <<[node |-> element, slot |-> "text", context |-> current_context, parent |-> parent]>>
        \o CopyChildren(d, element, current_context, 1)
        \o <<[node |-> element, slot |-> "tail", context |-> current_context, parent |-> parent]>>
CopyChildren(d, element, current_context, i) ==
    IF i > Len(d.kids[element]) THEN <<>>
    ELSE CopyWalk(d, d.kids[element][i], current_context, element)
         \o CopyChildren(d, element, current_context, i + 1)

\* no element of the new tree exists yet
EmptyTree(d) ==
    [tag    |-> [i \in NodesOf(d) |-> None],
     attrib |-> [i \in NodesOf(d) |-> None],
     kids   |-> [i \in NodesOf(d) |-> <<>>],
     text   |-> [i \in NodesOf(d) |-> None],
     tail   |-> [i \in NodesOf(d) |-> None]]

\* a faulty constructor that drops the attributes
\* (the structure property must reject it)
NewElementBare(d, element) == [tag |-> d.tag[element], attrib |-> {}]

\* ET.Element(element.tag, element.attrib)
NewElement(d, element) == [tag |-> d.tag[element], attrib |-> d.attrib[element]]

\* the new tree once the element of the visit exists: the own-text block is
\* the first thing done for an element
Created(nt, d, v) ==
    IF v.slot = "text"
    THEN [nt EXCEPT !.tag[v.node] = NewElement(d, v.node).tag,
                    !.attrib[v.node] = NewElement(d, v.node).attrib]
    ELSE nt

\* the new tree once the slot of the visit holds value; after its tail the
\* finished element is returned and appended to its parent
Placed(nt, v, value) ==
    IF v.slot = "text" THEN [nt EXCEPT !.text[v.node] = value]
    ELSE IF v.parent = 0 THEN [nt EXCEPT !.tail[v.node] = value]
    ELSE [nt EXCEPT !.tail[v.node] = value, !.kids[v.parent] = Append(@, v.node)]

\* what a text block does with the slot value src before any backend call:
\* it places a value (call FALSE) or calls the backend with arg
HqEntry(src, context, cache) ==
    IF ~Truthy(src) THEN [call |-> FALSE, asked |-> FALSE, value |-> None]
    ELSE IF Strip(src) = <<>> THEN [call |-> FALSE, asked |-> FALSE, value |-> src]
    ELSE IF ~translate_enabled
    THEN [call |-> FALSE, asked |-> TRUE, arg |-> src, value |-> convert_script(src)]
    ELSE IF <<src, context>> \in DOMAIN cache
    THEN [call |-> FALSE, asked |-> TRUE, arg |-> src,
          value |-> convert_script(cache[<<src, context>>])]
    ELSE [call |-> TRUE, asked |-> TRUE, arg |-> src]

Tfb2Entry(src) ==
    IF ~Truthy(src) THEN [call |-> FALSE, asked |-> FALSE, value |-> None]
    ELSE IF Strip(src) = <<>> THEN [call |-> FALSE, asked |-> FALSE, value |-> src]
    ELSE IF ~translate_enabled
    THEN [call |-> FALSE, asked |-> TRUE, arg |-> src, value |-> src]
    ELSE [call |-> TRUE, asked |-> TRUE, arg |-> src]

SimpleEntry(src) ==
    IF Truthy(src) /\ Strip(src) # <<>>
    THEN IF translate_enabled THEN [call |-> TRUE, asked |-> TRUE, arg |-> Strip(src)]
         ELSE [call |-> FALSE, asked |-> TRUE, arg |-> Strip(src),
               value |-> TranslateMarked(Strip(src))]
    ELSE [call |-> FALSE, asked |-> FALSE, value |-> src]

CopyEntry(v) ==
    LET src == IF v.slot = "text" THEN doc.text[v.node] ELSE doc.tail[v.node]
    IN  CASE prog = "hq" -> HqEntry(src, v.context, translation_cache)
          [] prog = "tfb2" -> Tfb2Entry(src)
          [] prog = "simple" -> SimpleEntry(src)

\* what the backends of these scripts may answer: also the text they were given
CopyBackendTexts(txt) == BackendTexts(txt) \cup {txt}

CopyInit(p) ==
    /\ TreeInit(p, CopyWalk(doc, 1, <<>>, 0))
    /\ translate_enabled \in BOOLEAN
    /\ new_tree = EmptyTree(doc)
    /\ target_script \in (IF p = "hq" THEN {"cyrillic", "latin"} ELSE {"cyrillic"})

\* the start of an element (for its own text) and one text block, up to the
\* backend call
CopySlot ==
    /\ prog \in CopyProgs /\ pc = "walk" /\ todo # <<>>
    /\ LET v == Head(todo)
           e == CopyEntry(v)
       IN  /\ submitted' = IF e.asked
                           THEN Append(submitted, [node |-> v.node, slot |-> v.slot,
                                                   text |-> e.arg,
                                                   context |-> v.context])
                           ELSE submitted
           /\ IF e.call
              THEN /\ new_tree' = Created(new_tree, doc, v)
                   /\ pc' = "backend"
                   /\ ret' = None
                   /\ UNCHANGED todo
              ELSE /\ new_tree' = Placed(Created(new_tree, doc, v), v, e.value)
                   /\ ret' = e.value
                   /\ todo' = Tail(todo)
                   /\ UNCHANGED pc
    /\ calls' = 0 /\ lastKind' = "none"
    /\ UNCHANGED <<mdOwn, prog, doc, text, tail, attempt, translate_enabled, fb2Own,
                   counters, raises, target_script>>
    /\ UNCHANGED written
    /\ UNCHANGED listOwn

\* translator.translate(...) returns
CopyBackendReturns ==
    /\ prog \in CopyProgs /\ pc = "backend"
    /\ LET v == Head(todo)
           arg == CopyEntry(v).arg
       IN  \E out \in CopyBackendTexts(arg) :
            /\ ret' = out
            /\ IF prog = "hq"
               THEN LET translated == post_process_translation(out, arg)
                    IN  /\ translation_cache' =
                                CachePut(translation_cache, <<arg, v.context>>, translated)
                        /\ new_tree' = Placed(new_tree, v, convert_script(translated))
               ELSE /\ new_tree' = Placed(new_tree, v, out)
                    /\ UNCHANGED translation_cache
    /\ calls' = calls + 1
    /\ lastKind' = "ok"
    /\ todo' = Tail(todo)
    /\ pc' = "walk"
    /\ UNCHANGED <<mdOwn, prog, doc, text, tail, attempt, translate_enabled,
                   translation_stats, errors, fromBackend, counters, raises,
                   submitted, target_script>>
    /\ UNCHANGED written
    /\ UNCHANGED listOwn

\* translator.translate(...) raises: the slot gets the source text
CopyBackendRaises ==
    /\ prog \in CopyProgs /\ pc = "backend"
    /\ raises < MaxRaises
    /\ raises' = raises + 1
    /\ \E kind \in FailureKinds : lastKind' = kind
    /\ LET v == Head(todo)
           src == (IF v.slot = "text" THEN doc.text[v.node] ELSE doc.tail[v.node])
       IN  /\ ret' = src
           /\ new_tree' = Placed(new_tree, v, IF prog = "hq" THEN convert_script(src) ELSE src)
    /\ calls' = calls + 1
    /\ todo' = Tail(todo)
    /\ pc' = "walk"
    /\ UNCHANGED <<mdOwn, prog, doc, text, tail, attempt, translate_enabled, fb2Own,
                   counters, submitted, target_script>>
    /\ UNCHANGED written
    /\ UNCHANGED listOwn

\* the new tree is written
CopyWrite ==
    /\ prog \in CopyProgs /\ pc = "walk" /\ todo = <<>>
    /\ pc' = "done"
    /\ UNCHANGED <<mdOwn, copyOwn, prog, doc, text, tail, todo, attempt, translate_enabled,
                   fb2Own, counters, ret, calls, lastKind, raises, submitted>>
    /\ written' = TRUE
    /\ UNCHANGED listOwn

CopyNext == CopySlot \/ CopyBackendReturns \/ CopyBackendRaises \/ CopyWrite

---------------------------------------------------------------------------
(* The two normalizers applied to given source/translated pairs:           *)
(* AdvancedFB2Translator.enhance_translation and                           *)
(* FB2Translator.post_process_translation                                  *)

MaxLen == 2

NormChars == {"a", "A", " ", "\n", "\"", "'"}

\* the strings given to the normalizers
NormStrings == UNION {[1..n -> NormChars] : n \in 0..MaxLen}

NormInit ==
    /\ prog = "normalize"
    /\ doc \in [source : NormStrings, translated : NormStrings]
    /\ pc = "input"
    /\ ret = None
    /\ submitted = <<>>
    /\ text = <<>> /\ tail = <<>> /\ todo = <<>>
    /\ attempt = 0
    /\ translate_enabled = FALSE
    /\ NoFB2State
    /\ translation_count = 0 /\ error_count = 0
    /\ calls = 0 /\ lastKind = "none" /\ raises = 0
    /\ NoMdState
    /\ NoCopyState
    /\ written = FALSE
    /\ NoListState

normFrame == <<mdOwn, copyOwn, prog, doc, text, tail, todo, attempt, translate_enabled,
               fb2Own, counters, calls, lastKind, raises>>

\* enhance_translation(text, translation, context) on the pair
NormEnhance ==
    /\ prog = "normalize" /\ pc = "input"
    /\ ret' = enhance_translation(doc.source, doc.translated, <<>>)
    /\ pc' = "enhanced"
    /\ UNCHANGED <<normFrame, submitted>>
    /\ UNCHANGED written
    /\ UNCHANGED listOwn

\* enhance_translation on its own result; submitted keeps the first result
NormEnhanceAgain ==
    /\ prog = "normalize" /\ pc = "enhanced"
    /\ submitted' = <<ret>>
    /\ ret' = enhance_translation(doc.source, ret, <<>>)
    /\ pc' = "enhanced twice"
    /\ UNCHANGED normFrame
    /\ UNCHANGED written
    /\ UNCHANGED listOwn

\* post_process_translation(translated, text) on the pair
NormPostProcess ==
    /\ prog = "normalize" /\ pc = "input"
    /\ ret' = post_process_translation(doc.translated, doc.source)
    /\ pc' = "processed"
    /\ UNCHANGED <<normFrame, submitted>>
    /\ UNCHANGED written
    /\ UNCHANGED listOwn

\* post_process_translation on its own result
NormPostProcessAgain ==
    /\ prog = "normalize" /\ pc = "processed"
    /\ submitted' = <<ret>>
    /\ ret' = post_process_translation(ret, doc.source)
    /\ pc' = "processed twice"
    /\ UNCHANGED normFrame
    /\ UNCHANGED written
    /\ UNCHANGED listOwn

NormNext == NormEnhance \/ NormEnhanceAgain \/ NormPostProcess \/ NormPostProcessAgain

\* convert_script on its own: letters with a two-letter and with a one-letter
\* entry in the table, a letter without entry and a blank
ScriptChars == {"x", "X", "q", "Q", "a", " "}

ScriptStrings == UNION {[1..n -> ScriptChars] : n \in 0..MaxLen}

ScriptInit ==
    /\ prog = "script"
    /\ doc \in [text : ScriptStrings]
    /\ target_script \in {"cyrillic", "latin"}
    /\ new_tree = None
    /\ pc = "input"
    /\ ret = None
    /\ submitted = <<>>
    /\ text = <<>> /\ tail = <<>> /\ todo = <<>>
    /\ attempt = 0
    /\ translate_enabled = FALSE
    /\ NoFB2State
    /\ translation_count = 0 /\ error_count = 0
    /\ calls = 0 /\ lastKind = "none" /\ raises = 0
    /\ NoMdState
    /\ written = FALSE
    /\ NoListState

\* self.convert_script(text)
ScriptConvert ==
    /\ prog = "script" /\ pc = "input"
    /\ ret' = convert_script(doc.text)
    /\ pc' = "converted"
    /\ UNCHANGED <<mdOwn, copyOwn, prog, doc, text, tail, todo, attempt, translate_enabled,
                   fb2Own, counters, calls, lastKind, raises, submitted, written, listOwn>>

ScriptNext == ScriptConvert

---------------------------------------------------------------------------
(* Legacy/fb2_translator.py: create_translation_template, and              *)
(* Legacy/translation_helper.py: TranslationHelper                         *)

RuOpen == <<"[", "R", "U", ":", " ">>
SrOpen == <<"[", "S", "R", ":", " ">>
RuTag == <<"[", "R", "U", ":">>
SrTag == <<"[", "S", "R", ":">>

\* f"[RU: {original}]\n[SR: ]"
MarkText(original) == RuOpen \o original \o <<"]", "\n">> \o SrOpen \o <<"]">>

\* what mark_text_for_translation leaves in a slot that held v
MarkSlot(v) ==
    IF Truthy(v) /\ Strip(v) # <<>>
    THEN IF Len(Strip(v)) > 3 THEN MarkText(Strip(v)) ELSE Strip(v)
    ELSE v

\* the smallest element of a non-empty set of numbers
Least(S) == CHOOSE x \in S : \A y \in S : x <= y

\* re.search(open + r'(.*?)\]', s) for a literal open: the leftmost place
\* where open stands and a "]" follows with no line break in between, and
\* the text up to the first such "]"
ReSearch(s, open) ==
    LET closes(i) == {j \in (i + Len(open))..Len(s) :
                        /\ s[j] = "]"
                        /\ \A k \in (i + Len(open))..(j - 1) : s[k] # "\n"}
        starts == {i \in 1..Len(s) :
                        /\ i + Len(open) - 1 <= Len(s)
                        /\ SubSeq(s, i, i + Len(open) - 1) = open
                        /\ closes(i) # {}}
    IN  IF starts = {} THEN [found |-> FALSE, group |-> <<>>]
        ELSE [found |-> TRUE,
              group |-> SubSeq(s, Least(starts) + Len(open), Least(closes(Least(starts))) - 1)]

\* a slot the helper takes for a marked one: both tags stand in its text
HasMarkers(v) ==
    Truthy(v) /\ Strip(v) # <<>> /\ Contains(Strip(v), RuTag) /\ Contains(Strip(v), SrTag)

\* a text with a closing bracket and a text with a line break
BracketTxt == <<"a", "]", "b", "c">>
BreakTxt   == <<"a", "b", "\n", "c", "d">>
TemplateTexts == {ShortTxt, KeyTxt, BracketTxt, BreakTxt}

TemplateSlotTexts(n) ==
    UNION {[Z -> TemplateTexts] : Z \in {Y \in SUBSET Slots(n) : Cardinality(Y) <= MaxTexts}}

\* the input trees of create_translation_template: all elements are <p>
TemplateDocuments ==
    UNION { {DocOf(Len(kids), kids, [i \in 2..Len(kids) |-> <<"p">>], f)
                : f \in TemplateSlotTexts(Len(kids))} : kids \in Shapes }

\* extract_translations: the entries (ru_text, sr_text, location) of the
\* slots in t (text) and l (tail), in the order of process_element
ExtractEntries(schedule, t, l) ==
    LET val(e) == IF e.slot = "tail" THEN l[e.node] ELSE t[e.node]
        marked == SelectSeq(schedule, LAMBDA e :
                      /\ HasMarkers(val(e))
                      /\ ReSearch(Strip(val(e)), RuOpen).found
                      /\ ReSearch(Strip(val(e)), SrOpen).found)
    IN  [k \in 1..Len(marked) |->
            [ru_text  |-> ReSearch(Strip(val(marked[k])), RuOpen).group,
             sr_text  |-> IF ReSearch(Strip(val(marked[k])), SrOpen).group # <<>>
                          THEN ReSearch(Strip(val(marked[k])), SrOpen).group ELSE None,
             location |-> IF marked[k].slot = "tail" THEN TailWord
                          ELSE <<"e", "l", "e", "m", "e", "n", "t">>]]

\* the heading of the list, shortened: a title, a rule, an empty line, two
\* lines of instructions and an empty line
HeaderLines ==
    << <<"F", "B", "2", "\n">>, <<"=", "=", "\n">>, <<"\n">>,
       <<"F", "o", "r", "m", "a", "t", ":", "\n">>, <<"F", "i", "l", "l", "\n">>, <<"\n">> >>

DigitChars == <<"1", "2", "3", "4", "5", "6", "7", "8", "9">>

RuLine(ru) == <<"R", "U", ":", " ">> \o ru \o <<"\n">>
SrLine(sr) == <<"S", "R", ":", " ">> \o sr \o <<"\n">>

\* the four lines create_translation_list writes for entry number k
EntryLines(k, entry) ==
    << <<"#", " ", DigitChars[k], ".", " ", "[">> \o entry.location \o <<"]", "\n">>,
       RuLine(entry.ru_text),
       SrLine(IF entry.sr_text = None THEN <<>> ELSE entry.sr_text),
       <<"-", "-", "\n">> >>

RECURSIVE AllEntryLines(_, _)
AllEntryLines(entries, k) ==
    IF k > Len(entries) THEN <<>>
    ELSE EntryLines(k, entries[k]) \o AllEntryLines(entries, k + 1)

\* the file create_translation_list writes
ListLines(entries) == HeaderLines \o AllEntryLines(entries, 1)

\* the dictionary apply_translations reads from the lines from k on
RECURSIVE ParseList(_, _, _, _)
ParseList(lines, k, current_ru, translations) ==
    IF k > Len(lines) THEN translations
    ELSE LET line == Strip(lines[k])
         IN  IF StartsWith(line, <<"R", "U", ":">>)
             THEN ParseList(lines, k + 1, Strip(SubSeq(line, 4, Len(line))), translations)
             ELSE IF StartsWith(line, <<"S", "R", ":">>) /\ Truthy(current_ru)
             THEN ParseList(lines, k + 1, None,
                      [x \in DOMAIN translations \cup {current_ru} |->
                          IF x = current_ru THEN Strip(SubSeq(line, 4, Len(line)))
                          ELSE translations[x]])
             ELSE ParseList(lines, k + 1, current_ru, translations)

\* what apply_to_element leaves in a slot that held v
ApplySlot(v, translations) ==
    IF HasMarkers(v) /\ ReSearch(Strip(v), RuOpen).found
    THEN IF ReSearch(Strip(v), RuOpen).group \in DOMAIN translations
         THEN translations[ReSearch(Strip(v), RuOpen).group]
         ELSE ReSearch(Strip(v), RuOpen).group
    ELSE v

TemplateInit ==
    /\ prog = "template"
    /\ doc \in TemplateDocuments
    /\ text = doc.text
    /\ tail = doc.tail
    /\ pc = "input"
    /\ todo = <<>>
    /\ attempt = 0
    /\ translate_enabled = FALSE
    /\ NoFB2State
    /\ translation_count = 0 /\ error_count = 0
    /\ ret = None
    /\ calls = 0 /\ lastKind = "none" /\ raises = 0
    /\ submitted = <<>>
    /\ NoMdState
    /\ NoCopyState
    /\ written = FALSE
    /\ NoListState

templateFrame == <<mdOwn, copyOwn, prog, doc, todo, attempt, translate_enabled, fb2Own,
                   counters, ret, calls, lastKind, raises, submitted, updated_lines,
                   line_index>>

\* create_translation_template: every slot is marked or trimmed
TemplateCreate ==
    /\ prog = "template" /\ pc = "input"
    /\ text' = [n \in NodesOf(doc) |-> MarkSlot(text[n])]
    /\ tail' = [n \in NodesOf(doc) |-> MarkSlot(tail[n])]
    /\ pc' = "template"
    /\ UNCHANGED <<templateFrame, translation_file, written>>

\* TranslationHelper.create_translation_list
ListCreate ==
    /\ prog = "template" /\ pc = "template"
    /\ translation_file' = ListLines(ExtractEntries(Walk(doc, 1), text, tail))
    /\ pc' = "list"
    /\ UNCHANGED <<templateFrame, text, tail, written>>

\* the user works on the list: some of the empty SR lines get a translation,
\* the others are left as they are; or the entries are taken out
ListEdit ==
    /\ prog = "template" /\ pc = "list"
    /\ \/ \E filled \in SUBSET {k \in 1..Len(translation_file) : translation_file[k] = SrLine(<<>>)} :
              translation_file' = [k \in 1..Len(translation_file) |->
                                      IF k \in filled THEN SrLine(Xyz) ELSE translation_file[k]]
       \/ translation_file' = HeaderLines
    /\ pc' = "edited"
    /\ UNCHANGED <<templateFrame, text, tail, written>>

\* TranslationHelper.apply_translations
ListApply ==
    /\ prog = "template" /\ pc = "edited"
    /\ LET translations == ParseList(translation_file, 1, None, <<>>)
       IN  /\ text' = [n \in NodesOf(doc) |-> ApplySlot(text[n], translations)]
           /\ tail' = [n \in NodesOf(doc) |-> ApplySlot(tail[n], translations)]
    /\ written' = TRUE
    /\ pc' = "done"
    /\ UNCHANGED <<templateFrame, translation_file>>

TemplateNext == TemplateCreate \/ ListCreate \/ ListEdit \/ ListApply

SpecTemplate == TemplateInit /\ [][TemplateNext]_vars

---------------------------------------------------------------------------
(* auto_translate_list.py: process_translation_list                        *)

MaxLines == 4

\* the lines of an input list: an RU line, an empty SR line, an SR line
\* with a translation, a rule, and an SR line with nothing after the colon
\* and no line end
BareSr == <<"S", "R", ":">>
LineValues == {RuLine(KeyTxt), SrLine(<<>>), SrLine(Qrs), <<"-", "-", "\n">>, BareSr}

\* f.readlines(): only the last line can be without its line end
ListFiles ==
    UNION {{f \in [1..n -> LineValues] : \A k \in 1..(n - 1) : f[k] # BareSr} : n \in 0..MaxLines}

\* lines[i] is an RU line and lines[i + 1] an SR line (i counts from 0)
PairAt(lines, i) ==
    /\ StartsWith(lines[i + 1], <<"R", "U", ":">>)
    /\ i + 1 < Len(lines)
    /\ StartsWith(lines[i + 2], <<"S", "R", ":">>)

\* line[3:].strip()
AfterColon(line) == Strip(SubSeq(line, 4, Len(line)))

AutoListInit ==
    /\ prog = "list"
    /\ translation_file \in ListFiles
    /\ updated_lines = <<>>
    /\ line_index = 0
    /\ translate_enabled \in BOOLEAN
    /\ pc = "loop"
    /\ doc = None
    /\ text = <<>> /\ tail = <<>> /\ todo = <<>>
    /\ attempt = 0
    /\ NoFB2State
    /\ translation_count = 0 /\ error_count = 0
    /\ ret = None
    /\ calls = 0 /\ lastKind = "none" /\ raises = 0
    /\ submitted = <<>>
    /\ NoMdState
    /\ NoCopyState
    /\ written = FALSE

autoListFrame == <<mdOwn, copyOwn, prog, doc, text, tail, todo, attempt, translate_enabled,
                   fb2Own, counters, ret, submitted, translation_file>>

\* a loop that sends every pair to the backend, also one with a translation
AutoListLineTranslatesAll ==
    /\ prog = "list" /\ pc = "loop"
    /\ line_index < Len(translation_file)
    /\ IF PairAt(translation_file, line_index)
       THEN IF translate_enabled
            THEN /\ updated_lines' = Append(updated_lines, translation_file[line_index + 1])
                 /\ pc' = "backend"
                 /\ UNCHANGED line_index
            ELSE /\ updated_lines' = updated_lines \o
                        <<translation_file[line_index + 1], translation_file[line_index + 2]>>
                 /\ line_index' = line_index + 2
                 /\ UNCHANGED pc
       ELSE /\ updated_lines' = Append(updated_lines, translation_file[line_index + 1])
            /\ line_index' = line_index + 1
            /\ UNCHANGED pc
    /\ UNCHANGED <<autoListFrame, calls, lastKind, raises, written>>

\* one round of the while loop, up to the call of the backend: the line is
\* taken over; of a pair the SR line is taken over too unless it is empty
\* and there is a translator
AutoListLine ==
    /\ prog = "list" /\ pc = "loop"
    /\ line_index < Len(translation_file)
    /\ IF PairAt(translation_file, line_index)
       THEN IF AfterColon(translation_file[line_index + 2]) = <<>> /\ translate_enabled
            THEN /\ updated_lines' = Append(updated_lines, translation_file[line_index + 1])
                 /\ pc' = "backend"
                 /\ UNCHANGED line_index
            ELSE /\ updated_lines' = updated_lines \o
                        <<translation_file[line_index + 1], translation_file[line_index + 2]>>
                 /\ line_index' = line_index + 2
                 /\ UNCHANGED pc
       ELSE /\ updated_lines' = Append(updated_lines, translation_file[line_index + 1])
            /\ line_index' = line_index + 1
            /\ UNCHANGED pc
    /\ UNCHANGED <<autoListFrame, calls, lastKind, raises, written>>

\* translator.translate returns: f"SR: {translated}\n" takes the place of
\* the SR line
AutoListBackendReturns ==
    /\ prog = "list" /\ pc = "backend"
    /\ \E translated \in BackendTexts(AfterColon(translation_file[line_index + 1])) :
           updated_lines' = Append(updated_lines, SrLine(translated))
    /\ line_index' = line_index + 2
    /\ calls' = calls + 1
    /\ lastKind' = "ok"
    /\ pc' = "loop"
    /\ UNCHANGED <<autoListFrame, raises, written>>

\* translator.translate raises: the SR line is taken over
AutoListBackendRaises ==
    /\ prog = "list" /\ pc = "backend"
    /\ updated_lines' = Append(updated_lines, translation_file[line_index + 2])
    /\ line_index' = line_index + 2
    /\ calls' = calls + 1
    /\ lastKind' \in FailureKinds
    /\ raises' = raises + 1
    /\ pc' = "loop"
    /\ UNCHANGED <<autoListFrame, written>>

\* f.writelines(updated_lines)
AutoListWrite ==
    /\ prog = "list" /\ pc = "loop"
    /\ line_index >= Len(translation_file)
    /\ written' = TRUE
    /\ pc' = "done"
    /\ UNCHANGED <<autoListFrame, updated_lines, line_index, calls, lastKind, raises>>

AutoListNext ==
    AutoListLine \/ AutoListBackendReturns \/ AutoListBackendRaises \/ AutoListWrite

SpecAutoList == AutoListInit /\ [][AutoListNext]_vars

---------------------------------------------------------------------------
(* Specifications *)

\* the two scripts with a retry loop
SpecRetry == (FB2Init \/ AutoInit) /\ [][FB2Next \/ AutoNext]_vars

\* the two scripts with a substance threshold of 2
SpecThreshold == (FB2Init \/ DirectInit) /\ [][FB2Next \/ DirectNext]_vars

SpecChunks == ChunksInit /\ [][ChunksNext]_vars

SpecMd == MdInit /\ [][MdNext]_vars

SpecRecover == (FB2Init \/ MdInit) /\ [][FB2Next \/ MdNext]_vars

\* Ctrl-C while translate_markdown_file or process_fb2_structure is at work:
\* KeyboardInterrupt is not an Exception, so it passes every "except
\* Exception" of the two scripts and ends the process
Interrupt ==
    /\ prog \in {"md", "fb2"}
    /\ pc \in {"walk", "backend"}
    /\ pc' = "interrupted"
    /\ UNCHANGED <<mdOwn, copyOwn, prog, doc, text, tail, todo, attempt, translate_enabled,
                   fb2Own, counters, ret, calls, lastKind, raises, submitted, written, listOwn>>

SpecInterrupt == (FB2Init \/ MdInit) /\ [][FB2Next \/ MdNext \/ Interrupt]_vars

\* the steps of the scripts themselves always go on; a backend call is
\* certain to end only where the code bounds it: subprocess.run(...,
\* timeout=120) and requests.post(..., timeout=120) of translate_llm_only,
\* not self.translator.translate(text, dest='sr', src='ru')
SpecBlocking ==
    /\ FB2Init \/ MdInit
    /\ [][FB2Next \/ MdNext]_vars
    /\ WF_vars(FB2Slot) /\ WF_vars(FB2Write)
    /\ WF_vars(MdMain) /\ WF_vars(MdParagraph) /\ WF_vars(MdWrite) /\ WF_vars(MdReturn)
    /\ WF_vars(MdBackendAnswers \/ MdBackendRaises)

\* the two translators that keep a translation cache
SpecCache == (FB2Init \/ CopyInit("hq")) /\ [][FB2Next \/ CopyNext]_vars

SpecScript == ScriptInit /\ [][ScriptNext]_vars

SpecNormalize == NormInit /\ [][NormNext]_vars

\* the three copying scripts
SpecCopy == (CopyInit("hq") \/ CopyInit("tfb2") \/ CopyInit("simple")) /\ [][CopyNext]_vars

---------------------------------------------------------------------------
(* Properties *)

LastSubmitted == submitted[Len(submitted)]

\* the value a fragment's slot held before the run
Original(v) == IF v.slot = "text" THEN doc.text[v.node] ELSE doc.tail[v.node]

\* C1: in translate_with_context the cache is consulted first: a call for a
\* (text, context) that an earlier call of the run got from the live backend
\* returns the stored value without calling the backend, adds exactly 1 to
\* cached and leaves translated as it was.
C1_CacheFirst ==
    [][ (/\ prog = "fb2" /\ pc = "walk" /\ todo # <<>>
         /\ FB2Submits(SlotVal(Head(todo)))
         /\ <<Strip(SlotVal(Head(todo))), Head(todo).context>> \in fromBackend)
        => LET key == <<Strip(SlotVal(Head(todo))), Head(todo).context>>
           IN  /\ pc' = "walk"
               /\ calls' = 0
               /\ key \in DOMAIN translation_cache
               /\ ret' = translation_cache[key]
               /\ translation_cache' = translation_cache
               /\ translation_stats'.cached = translation_stats.cached + 1
               /\ translation_stats'.translated = translation_stats.translated
      ]_vars

\* a call that was answered from the cache with a value the backend gave earlier
C1_Witness ==
    /\ prog = "fb2" /\ pc = "walk" /\ calls = 0 /\ lastKind = "none"
    /\ submitted # <<>>
    /\ <<LastSubmitted.text, LastSubmitted.context>> \in fromBackend
    /\ translation_stats.cached > 0
    /\ Truthy(ret)
    /\ ret = translation_cache[<<LastSubmitted.text, LastSubmitted.context>>]

\* the fragments of the document: every slot with the context it is presented with
FB2Fragments == {FB2Walk(doc, 1, <<>>)[i] : i \in 1..Len(FB2Walk(doc, 1, <<>>))}

\* C2: cache determinism: at the end of one run of the FB2 driver any two
\* fragments with the identical (text, context) hold the identical value in
\* their slots, whatever the backend did (also when it failed for the first
\* and succeeded for the second).
C2_CacheDeterminism ==
    (prog = "fb2" /\ pc = "done") =>
        \A v, w \in FB2Fragments :
            (/\ FB2Submits(Original(v)) /\ FB2Submits(Original(w))
             /\ Strip(Original(v)) = Strip(Original(w))
             /\ v.context = w.context)
            => SlotVal(v) = SlotVal(w)

\* maxAttempts of the retry policy
MaxAttempts == 3

\* C3: retry bound: one invocation of the retry wrapper (translate_with_context,
\* translate_with_retry) calls a failing backend at most maxAttempts times and
\* then returns a failure result.
C3_RetryBound ==
    (prog \in {"fb2", "auto"}) =>
        /\ calls <= MaxAttempts
        /\ (pc = "backend" => calls < MaxAttempts)
        /\ (pc = "walk" /\ lastKind \in FailureKinds)
            => (calls = MaxAttempts /\ ret = None)

\* C4: retry selectivity: the backend is called again for a fragment only after
\* a RateLimited or Timeout failure; after Unavailable or Malformed the failure
\* is returned at once.
C4_RetrySelectivity ==
    (prog \in {"fb2", "auto"}) =>
        /\ (pc = "backend" /\ calls > 0) => lastKind \in Transient
        /\ (pc = "walk" /\ lastKind \in FailureKinds \ Transient) => calls = 1

\* the original text wrapped in a failure marker: more than the text alone
MarkedWith(value, original) == value # original /\ Contains(value, original)

\* C7: in the FB2 driver a fragment whose translation failed ends Marked: its
\* slot holds the original text wrapped in a failure marker and the errors
\* counter was incremented; it is never left as plain source text.
C7_FailedIsMarked ==
    (prog = "fb2" /\ pc = "walk" /\ lastKind \in FailureKinds) =>
        /\ MarkedWith(SlotVal([node |-> LastSubmitted.node, slot |-> LastSubmitted.slot]),
                      LastSubmitted.text)
        /\ translation_stats.errors > 0

\* the reading order of a tree: own text, each child in document order with
\* the extended context, then the tail with context + "/tail", each slot once
RECURSIVE ReadingOrder(_, _, _), ReadingChildren(_, _, _, _)
ReadingOrder(d, element, context) ==
    <<[node |-> element, slot |-> "text", context |-> context]>>
    \o ReadingChildren(d, element, context, 1)
    \o <<[node |-> element, slot |-> "tail", context |-> context \o Slash \o TailWord]>>
ReadingChildren(d, element, context, i) ==
    IF i > Len(d.kids[element]) THEN <<>>
    ELSE LET child == d.kids[element][i]
         IN  ReadingOrder(d, child, IF context # <<>> THEN context \o Slash \o d.tag[child]
                                    ELSE d.tag[child])
             \o ReadingChildren(d, element, context, i + 1)

\* C8: traversal order: the fragments process_element_translations submits for
\* a tree are exactly the substantial slots in reading order, each slot once.
C8_ReadingOrderOnce ==
    (prog = "fb2" /\ pc = "done") =>
        [i \in 1..Len(submitted) |-> [node |-> submitted[i].node, slot |-> submitted[i].slot,
                                      context |-> submitted[i].context]]
        = SelectSeq(ReadingOrder(doc, 1, <<>>), LAMBDA v : FB2Submits(Original(v)))

\* C5: threshold gate: translate_markdown_file reports success exactly if, of
\* the paragraphs submitted for translation, at least 90% are not marked
\* failed; paragraphs never submitted (empty, header, quote, code) do not
\* raise that fraction.
C5_ThresholdOverSubmitted ==
    (prog = "md" /\ pc = "done") =>
        (success = "True"
         <=> 10 * (Len(submitted) - failed_paragraphs) >= 9 * Len(submitted))

\* C6: a paragraph whose llama.cpp output holds no marker string ends failed:
\* the backend is called exactly once for it, the paragraph is written as
\* "[TRANSLATION FAILED] " followed by the trimmed original, and the failed
\* counter goes up by exactly 1.
C6_NoMarkerFails ==
    [][ (/\ prog = "md" /\ pc = "backend" /\ provider = "llamacpp"
         /\ stdout' # None
         /\ ~Contains(stdout', SerbianMarker))
        => /\ calls = 0 /\ calls' = 1
           /\ pc' = "walk"
           /\ failed_paragraphs' = failed_paragraphs + 1
           /\ translated_paragraphs' =
                Append(translated_paragraphs, FailedOpen \o Strip(Paragraph))
      ]_vars

\* a paragraph has just been marked after an output without the marker
C6_Witness ==
    /\ prog = "md" /\ pc = "walk" /\ provider = "llamacpp"
    /\ stdout # None /\ stdout # <<>> /\ ~Contains(stdout, SerbianMarker)
    /\ calls = 1
    /\ failed_paragraphs > 0
    /\ translated_paragraphs # <<>>
    /\ translated_paragraphs[Len(translated_paragraphs)]
        = FailedOpen \o Strip(paragraphs[Len(translated_paragraphs)])

AllSlots == {[node |-> n, slot |-> sl] : n \in NodesOf(doc), sl \in {"text", "tail"}}

\* C9: substance threshold: process_element_translations and translate_fb2_direct
\* submit a slot only if its trimmed length exceeds 2; a slot with a trimmed
\* length of 2 or less (or empty, or whitespace only) is not submitted, not
\* counted, and keeps exactly its original value.
C9_SubstanceThreshold ==
    (prog \in {"fb2", "direct"}) =>
        /\ \A i \in 1..Len(submitted) : Len(Strip(submitted[i].text)) > 2
        /\ \A v \in AllSlots :
            (~Truthy(Original(v)) \/ Len(Strip(Original(v))) <= 2)
            => /\ SlotVal(v) = Original(v)
               /\ \A i \in 1..Len(submitted) :
                    ~(submitted[i].node = v.node /\ submitted[i].slot = v.slot)
        /\ (prog = "fb2" => translation_stats.total = Len(submitted))
        /\ (prog = "direct" => translation_count + error_count <= Len(submitted))

\* a finished run that passed a two-character slot by and translated another
C9_Witness ==
    /\ prog \in {"fb2", "direct"} /\ pc = "done"
    /\ \E v \in AllSlots : Original(v) = ShortTxt /\ SlotVal(v) = ShortTxt
    /\ \E w \in AllSlots : FB2Submits(Original(w)) /\ SlotVal(w) # Original(w)
    /\ submitted # <<>>

\* C10: own text and tail are independent slots in process_text_chunks: for
\* every tag name a result is written only to the slot its fragment was read
\* from, so a slot no fragment was read from keeps its value.
C10_SlotsIndependent ==
    (prog = "chunks") =>
        \A v \in AllSlots :
            (\A i \in 1..Len(submitted) :
                ~(submitted[i].node = v.node /\ submitted[i].slot = v.slot))
            => SlotVal(v) = Original(v)

IsPrefixOf(s, t) == Len(s) <= Len(t) /\ SubSeq(t, 1, Len(s)) = s

\* C11: structural round trip: the tree the copying scripts build has at
\* every node the tag, the attributes and the children (number and order) of
\* the input tree, also when the backend returns its input unchanged; a slot
\* of the new tree holds a text exactly if the slot of the input tree did.
C11_StructurePreserved ==
    (prog \in CopyProgs) =>
        \A i \in NodesOf(doc) :
            /\ new_tree.tag[i] # None
                => /\ new_tree.tag[i] = doc.tag[i]
                   /\ new_tree.attrib[i] = doc.attrib[i]
            /\ IsPrefixOf(new_tree.kids[i], doc.kids[i])
            /\ todo = <<>>
                => /\ new_tree.tag[i] = doc.tag[i]
                   /\ new_tree.kids[i] = doc.kids[i]
                   /\ new_tree.text[i] = None <=> doc.text[i] = None
                   /\ new_tree.tail[i] = None <=> doc.tail[i] = None

\* the backend has just returned its input unchanged for the tail of an
\* element with attributes, and the finished copy was appended to its parent
C11_Witness ==
    /\ prog \in CopyProgs /\ pc = "walk"
    /\ lastKind = "ok"
    /\ submitted # <<>>
    /\ ret = LastSubmitted.text
    /\ LastSubmitted.slot = "tail"
    /\ doc.attrib[LastSubmitted.node] # {}
    /\ new_tree.attrib[LastSubmitted.node] = doc.attrib[LastSubmitted.node]
    /\ new_tree.kids[1] = <<LastSubmitted.node>>

\* C12: idempotent normalization: enhance_translation applied to its own
\* result (with the same source) gives that result again, and so does
\* post_process_translation.
C12_NormalizeIdempotent ==
    (prog = "normalize" /\ pc \in {"enhanced twice", "processed twice"}) =>
        ret = submitted[1]

\* a pair the normalizer changed (line end added, first letter raised), and
\* the second application left the result alone
C12_Witness ==
    /\ prog = "normalize" /\ pc = "enhanced twice"
    /\ submitted[1] # doc.translated
    /\ Len(submitted[1]) > Len(doc.translated)
    /\ IsUpperChar(submitted[1][1]) /\ IsLowerChar(doc.translated[1])
    /\ ret = submitted[1]

\* C13: dictionary first: translate_with_context answers a fragment whose
\* trimmed text is a key of the reference dictionary from the dictionary and
\* never calls the backend for it; a fragment that is not a key is not touched
\* by the dictionary: it goes to the backend, or without a backend fails.
C13_DictionaryFirst ==
    [][ (/\ prog = "fb2" /\ pc = "walk" /\ todo # <<>>
         /\ FB2Submits(SlotVal(Head(todo))))
        => LET txt == Strip(SlotVal(Head(todo)))
           IN  /\ txt \in DOMAIN reference_translations
                    => /\ pc' = "walk"
                       /\ calls' = 0
                       /\ ret' = reference_translations[txt]
               /\ (/\ txt \notin DOMAIN reference_translations
                   /\ <<txt, Head(todo).context>> \notin DOMAIN translation_cache)
                    => /\ translation_cache' = translation_cache
                       /\ IF translate_enabled THEN pc' = "backend"
                          ELSE pc' = "walk" /\ ret' = None
      ]_vars

\* a dictionary word has just been answered with its (different) translation
C13_Witness ==
    /\ prog = "fb2" /\ pc = "walk" /\ calls = 0
    /\ submitted # <<>>
    /\ LastSubmitted.text \in DOMAIN reference_translations
    /\ ret = reference_translations[LastSubmitted.text]
    /\ ret # LastSubmitted.text
    /\ translation_stats.translated = 1
    /\ text[LastSubmitted.node] = ret

\* C14: single live backend: for one paragraph translate_text calls at most
\* one backend, the one the static priority picks (llama.cpp whenever its
\* binary and a model are found, the remote API only otherwise); when that
\* call fails the paragraph is marked failed, no other backend is tried.
C14_SingleBackend ==
    prog = "md" =>
        /\ Len(invoked) <= 1
        /\ \A i \in DOMAIN invoked :
            /\ invoked[i] \in {"llamacpp", "openai"}
            /\ (environment.llama_binary /\ environment.gguf) => invoked[i] = "llamacpp"
            /\ invoked[i] = "openai" => environment.config = "openai"
        /\ (pc = "walk" /\ lastKind \notin {"ok", "none"})
            => /\ translated_paragraphs # <<>>
               /\ translated_paragraphs[Len(translated_paragraphs)]
                    = FailedMarked(paragraphs[Len(translated_paragraphs)])

\* llama.cpp has just failed on a paragraph while config.json has an OpenAI
\* key: the paragraph is marked and the remote API was not asked
C14_Witness ==
    /\ prog = "md" /\ pc = "walk"
    /\ lastKind \in FailureKinds
    /\ invoked = <<"llamacpp">>
    /\ environment.config = "openai"
    /\ translated_paragraphs[Len(translated_paragraphs)]
         = FailedMarked(paragraphs[Len(translated_paragraphs)])

\* the provider translate_text would pick can really translate: llama.cpp
\* with the model file translate_with_llamacpp opens, or the OpenAI API
ProviderUsable ==
    \/ get_translation_provider = "llamacpp" /\ model_file
    \/ get_translation_provider = "openai"

\* C15: backend unavailable is surfaced before processing begins: when no
\* provider is usable (no binary and no API key, the model file of
\* translate_with_llamacpp missing, or a provider translate_text does not
\* support) the run fails before any paragraph is submitted or marked failed.
C15_UnavailableBeforeProcessing ==
    (prog = "md" /\ ~ProviderUsable) =>
        /\ submitted = <<>>
        /\ failed_paragraphs = 0

\* the paragraphs translate_markdown_file hands to translate_text
MdSubmits(paragraph) == Strip(paragraph) # <<>> /\ ~Preserved(paragraph)

\* the paragraph values of the runs that are handed to translate_text
SubmittedValues == {p \in ParagraphValues : MdSubmits(p)}

\* C16: fragment failures are recovered locally: in translate_markdown_file
\* and process_element_translations a backend failure on a fragment never
\* ends the run: the run is only ever in the loop, in a backend call or at
\* the written document (or it ended before the first fragment), a failed
\* call moves on to the next fragment, and when the document is written
\* every fragment has been processed, the ones after a failed one included.
C16_FailuresRecovered ==
    /\ prog \in {"md", "fb2"} => pc \in {"main", "walk", "backend", "written", "done", "exit"}
    /\ pc = "exit" => (submitted = <<>> /\ raises = 0)
    /\ (prog = "md" /\ pc = "done")
        => /\ Len(translated_paragraphs) = Len(paragraphs)
           /\ Len(submitted)
                = Cardinality({i \in DOMAIN paragraphs : paragraphs[i] \in SubmittedValues})
           /\ \A i \in DOMAIN submitted : paragraphs[submitted[i].node] \in SubmittedValues
    /\ (prog = "fb2" /\ pc = "done")
        => /\ todo = <<>>
           /\ translation_stats.total = Len(submitted)
    /\ (prog = "md" /\ pc = "walk" /\ lastKind \in FailureKinds)
        => Len(translated_paragraphs) = submitted[Len(submitted)].node
    /\ (prog = "fb2" /\ pc = "walk" /\ lastKind \in FailureKinds)
        => /\ ret = None
           /\ (IF LastSubmitted.slot = "text" THEN text ELSE tail)[LastSubmitted.node]
                = LastSubmitted.text

\* the FB2 document is written after a fragment failed on all its attempts
\* and a later fragment was translated by the backend
C16_Witness ==
    /\ prog = "fb2" /\ pc = "done"
    /\ errors # <<>>
    /\ \E i, j \in DOMAIN submitted :
        /\ i < j
        /\ submitted[j].text # submitted[i].text
        /\ errors[1] = Prefix(submitted[i].text, ErrTextLen)
        /\ <<submitted[j].text, submitted[j].context>> \in fromBackend

\* C17: bounded blocking: every backend call and every pause between
\* retries is bounded by a timeout, so the run over a finite document ends
\* (the document is written, or the script exits before it starts) even
\* when the backend never responds.
C17_RunTerminates == <>(pc \in {"done", "exit"})

\* C18: run-level cancellation: when the run is interrupted from outside,
\* the driver issues no further backend call and still serializes the
\* partially translated document.
C18_InterruptStillWrites ==
    pc = "interrupted" => written

\* for every paragraph handed to translate_text, the llama.cpp outputs without
\* marker, with nothing extracted after it, or with an extracted text that is
\* the beginning of the input when letter case is ignored
MustFail ==
    [p \in SubmittedValues |->
        {out \in Stdouts(Strip(p)) :
            LET extracted == ExtractTranslation(out, Strip(p))
            IN  \/ ~Contains(out, SerbianMarker)
                \/ extracted = <<>>
                \/ IsPrefixOf(LowerStr(extracted), LowerStr(Strip(p)))}]

\* C19: translate_with_llamacpp fails whenever the output holds no
\* "Serbian translation:" marker, or the text extracted after it is empty,
\* or that text is an echo of the input (it equals the beginning of the
\* input, letter case ignored); and translate_text never returns a string
\* equal to its input, with either backend.
C19_EchoFails ==
    [][ (prog = "md" /\ pc = "backend" /\ stdout' # None)
        => LET txt == Strip(Paragraph)
           IN  /\ ret' # txt
               /\ (/\ get_translation_provider = "llamacpp"
                   /\ stdout' \in MustFail[Paragraph])
                    => /\ ret' = None
                       /\ lastKind' = "Malformed"
                       /\ failed_paragraphs' = failed_paragraphs + 1
      ]_vars

\* llama.cpp has answered with the marker and the beginning of the input in
\* other letter case, and the paragraph failed
C19_Witness ==
    /\ prog = "md" /\ pc = "walk" /\ invoked = <<"llamacpp">>
    /\ stdout # None /\ Contains(stdout, SerbianMarker)
    /\ LET txt       == Strip(paragraphs[Len(translated_paragraphs)])
           extracted == ExtractTranslation(stdout, txt)
       IN  /\ extracted # <<>>
           /\ extracted # Prefix(txt, Len(extracted))
           /\ Len(extracted) < Len(txt)
           /\ IsPrefixOf(LowerStr(extracted), LowerStr(txt))
    /\ ret = None
    /\ lastKind = "Malformed"

\* C20: the translation cache only grows within a run: no step removes an
\* entry or changes the value of a key (the value stored first stays), and a
\* backend call that fails stores nothing.
C20_CacheOnlyGrows ==
    [][ /\ \A k \in DOMAIN translation_cache :
            /\ k \in DOMAIN translation_cache'
            /\ translation_cache'[k] = translation_cache[k]
        /\ (pc = "backend" /\ lastKind' \in FailureKinds)
            => translation_cache' = translation_cache
      ]_vars

\* a fragment has just failed and has no entry, while the cache holds an
\* earlier translation that has already been served from it
C20_Witness ==
    /\ prog = "fb2" /\ pc = "walk"
    /\ lastKind \in FailureKinds
    /\ ret = None
    /\ submitted # <<>>
    /\ <<LastSubmitted.text, LastSubmitted.context>> \notin DOMAIN translation_cache
    /\ fromBackend # {}
    /\ translation_stats.cached > 0

\* C21: statistics partition: every fragment counted in total has exactly
\* one outcome, so after the run of process_fb2_structure total = translated
\* + cached + errors; no other counter exceeds total, and no counter ever
\* decreases.
C21_StatisticsPartition ==
    /\ (prog = "fb2" /\ pc = "done")
        => translation_stats.total = translation_stats.translated
                                     + translation_stats.cached + translation_stats.errors
    /\ prog = "fb2"
        => \A c \in {"translated", "cached", "errors"} :
                translation_stats[c] <= translation_stats.total

\* C22: translate_markdown_file writes the output, with one result for every
\* paragraph, before it evaluates the success threshold: when the file has
\* just been written nothing is decided yet, the results do not change any
\* more, and a run that returns failure has written all of them.
C22_WrittenBeforeThreshold ==
    prog = "md" =>
        /\ success # "None" => written
        /\ written => Len(translated_paragraphs) = Len(paragraphs)
        /\ pc = "written" => (written /\ success = "None")
        /\ (pc = "done" /\ success = "False")
            => /\ written
               /\ BelowThreshold(Len(paragraphs), failed_paragraphs)

\* a run below the threshold has returned failure with its file written,
\* marked paragraphs included
C22_Witness ==
    /\ prog = "md" /\ pc = "done"
    /\ success = "False"
    /\ written
    /\ failed_paragraphs > 0
    /\ \E i \in DOMAIN translated_paragraphs :
            translated_paragraphs[i] = FailedMarked(paragraphs[i])
    /\ \E i \in DOMAIN translated_paragraphs :
            /\ paragraphs[i] \in SubmittedValues
            /\ translated_paragraphs[i] # FailedMarked(paragraphs[i])

\* what the table gives for one character: its entry, or the character
MappedPiece(c) ==
    IF c \in DOMAIN SERBIAN_CYRILLIC_TO_LATIN THEN SERBIAN_CYRILLIC_TO_LATIN[c] ELSE <<c>>

\* the length of the pieces of the first n characters of s
RECURSIVE PieceOffset(_, _)
PieceOffset(s, n) == IF n = 0 THEN 0 ELSE PieceOffset(s, n - 1) + Len(MappedPiece(s[n]))

\* C23: convert_script with target script cyrillic returns its input; with
\* target script latin the result is, character by character and in the
\* order of the input, the table entry of every character that has one and
\* the character itself for every other.
C23_ScriptTransliteration ==
    (prog = "script" /\ pc = "converted") =>
        IF target_script = "latin"
        THEN /\ Len(ret) = PieceOffset(doc.text, Len(doc.text))
             /\ \A i \in 1..Len(doc.text) :
                    SubSeq(ret, PieceOffset(doc.text, i - 1) + 1, PieceOffset(doc.text, i))
                        = MappedPiece(doc.text[i])
        ELSE ret = doc.text

\* a text with a two-letter entry and a character without entry has been
\* converted to latin
C23_Witness ==
    /\ prog = "script" /\ pc = "converted" /\ target_script = "latin"
    /\ \E i, j \in 1..Len(doc.text) :
        /\ Len(MappedPiece(doc.text[i])) = 2
        /\ doc.text[j] \notin DOMAIN SERBIAN_CYRILLIC_TO_LATIN
    /\ Len(ret) = Len(doc.text) + 1
    /\ ret # doc.text

\* C24: capitalization repair: when the source begins with an uppercase
\* letter and the translated text with a lowercase letter, the result of
\* enhance_translation begins with the uppercase form of that letter; in
\* every other case the first character of the translated text is unchanged.
C24_CapitalizationRepair ==
    (prog = "normalize" /\ pc = "enhanced" /\ doc.translated # <<>>) =>
        /\ ret # <<>>
        /\ IF doc.source # <<>> /\ IsUpperChar(doc.source[1]) /\ IsLowerChar(doc.translated[1])
           THEN <<ret[1]>> = UpperChar(doc.translated[1]) /\ ret[1] # doc.translated[1]
           ELSE ret[1] = doc.translated[1]

\* the first letter of a translation has been raised
C24_Witness ==
    /\ prog = "normalize" /\ pc = "enhanced"
    /\ doc.source # <<>> /\ doc.translated # <<>>
    /\ IsUpperChar(doc.source[1]) /\ IsLowerChar(doc.translated[1])
    /\ IsUpperChar(ret[1])
    /\ Tail(ret) = Tail(doc.translated)

C26_AutoCounts ==
    prog = "auto" =>
        /\ (pc = "walk" /\ lastKind \in FailureKinds)
            => /\ SlotVal(LastSubmitted) = TranslateMarked(LastSubmitted.text)
               /\ error_count > 0
               /\ translation_count < Len(submitted)
        /\ pc = "done" => translation_count + error_count = Len(submitted)

\* the non-empty Serbian translations a list holds
ListTranslations(lines) ==
    {Strip(SubSeq(Strip(lines[k]), 4, Len(Strip(lines[k])))) :
        k \in {j \in 1..Len(lines) : StartsWith(Strip(lines[j]), <<"S", "R", ":">>)}} \ {<<>>}

\* the Russian text the helper reads from the marker of a template slot
MarkedRu(v) == ReSearch(Strip(MarkSlot(v)), RuOpen)

\* C27: apply_translations never loses text: after it every slot that
\* carried a [RU: ...][SR: ...] marker holds a non-empty Serbian translation
\* of the list or the Russian text of its marker; so a slot whose entry has
\* an empty SR line keeps its Russian text.
C27_NeverLosesText ==
    (prog = "template" /\ pc = "done") =>
        \A n \in NodesOf(doc) :
            /\ (HasMarkers(MarkSlot(doc.text[n])) /\ MarkedRu(doc.text[n]).found)
                => \/ text[n] \in ListTranslations(translation_file)
                   \/ text[n] = MarkedRu(doc.text[n]).group
            /\ (HasMarkers(MarkSlot(doc.tail[n])) /\ MarkedRu(doc.tail[n]).found)
                => \/ tail[n] \in ListTranslations(translation_file)
                   \/ tail[n] = MarkedRu(doc.tail[n]).group

\* C28: create_translation_template followed by apply_translations with a
\* list that has no entries restores every text slot to its trimmed text
\* and leaves no [RU: or [SR: marker in the document.
C28_TemplateRoundTrip ==
    (/\ prog = "template" /\ pc = "done"
     /\ \A k \in 1..Len(translation_file) :
            ~StartsWith(Strip(translation_file[k]), <<"R", "U", ":">>)) =>
        \A n \in NodesOf(doc) :
            /\ (Truthy(doc.text[n]) /\ Strip(doc.text[n]) # <<>>)
                => /\ text[n] = Strip(doc.text[n])
                   /\ ~Contains(text[n], RuTag) /\ ~Contains(text[n], SrTag)
            /\ (Truthy(doc.tail[n]) /\ Strip(doc.tail[n]) # <<>>)
                => /\ tail[n] = Strip(doc.tail[n])
                   /\ ~Contains(tail[n], RuTag) /\ ~Contains(tail[n], SrTag)

\* line k of the input is an empty SR line directly after an RU line
EmptySrAfterRu(lines, k) ==
    /\ k > 1
    /\ StartsWith(lines[k - 1], <<"R", "U", ":">>)
    /\ StartsWith(lines[k], <<"S", "R", ":">>)
    /\ AfterColon(lines[k]) = <<>>

\* C29: process_translation_list keeps everything but empty translations:
\* the output has the lines of the input in number and order, every line
\* that is not an empty SR line directly after an RU line is the same, so
\* no SR line with a translation is overwritten, an empty SR line is
\* replaced by an SR line, and one whose translation failed is kept.
C29_ListPreserved ==
    /\ [](prog = "list" =>
            /\ \A k \in 1..Len(updated_lines) :
                  /\ k <= Len(translation_file)
                  /\ ~EmptySrAfterRu(translation_file, k)
                        => updated_lines[k] = translation_file[k]
                  /\ StartsWith(translation_file[k], <<"S", "R", ":">>)
                        => StartsWith(updated_lines[k], <<"S", "R", ":">>)
            /\ pc = "done" => Len(updated_lines) = Len(translation_file))
    /\ [][(prog = "list" /\ pc = "backend" /\ lastKind' \in FailureKinds)
            => /\ Len(updated_lines') = Len(updated_lines) + 1
               /\ updated_lines'[Len(updated_lines')] = translation_file[Len(updated_lines')]]_vars

\* a list was written in which one empty SR line got its translation and
\* another, whose translation failed, is as it was
C29_Witness ==
    /\ prog = "list" /\ pc = "done" /\ written
    /\ Len(translation_file) = 4
    /\ translation_file[2] = SrLine(<<>>) /\ updated_lines[2] = SrLine(Xyz)
    /\ translation_file[4] = BareSr /\ updated_lines[4] = BareSr
    /\ lastKind \in FailureKinds

\* the rounds of the loop that handed paragraph number i to translate_text
RoundsOf(i) == {j \in DOMAIN submitted : submitted[j].node = i}

\* C30: translate_markdown_file emits one entry per input paragraph, in
\* input order; a paragraph that is empty or starts with #, a code fence or
\* > is emitted unchanged, never sent to a backend and never counted as
\* failed; every other paragraph is sent for translation exactly once, and
\* with a usable provider that is exactly one backend call.
C30_OneEntryPerParagraph ==
    prog = "md" =>
        /\ Len(translated_paragraphs) <= Len(paragraphs)
        /\ pc \in {"written", "done"} => Len(translated_paragraphs) = Len(paragraphs)
        /\ \A i \in 1..Len(translated_paragraphs) :
              IF paragraphs[i] \in SubmittedValues
              THEN /\ Cardinality(RoundsOf(i)) = 1
                   /\ \A j \in RoundsOf(i) : submitted[j].text = Strip(paragraphs[i])
                   /\ translated_paragraphs[i] # paragraphs[i]
              ELSE /\ RoundsOf(i) = {}
                   /\ translated_paragraphs[i] = paragraphs[i]
        /\ \A j \in DOMAIN submitted :
              /\ submitted[j].node <= Len(translated_paragraphs) + 1
              /\ j > 1 => submitted[j - 1].node < submitted[j].node
        /\ failed_paragraphs
              = Cardinality({i \in 1..Len(translated_paragraphs) :
                                /\ paragraphs[i] \in SubmittedValues
                                /\ translated_paragraphs[i] = FailedMarked(paragraphs[i])})
        /\ (pc = "walk" /\ lastKind = "none") => (calls = 0 /\ invoked = <<>>)
        /\ (pc = "walk" /\ lastKind # "none")
              => (calls = (IF ProviderUsable THEN 1 ELSE 0) /\ Len(invoked) = calls)

\* a written file with a quote and an empty paragraph as they were, and a
\* paragraph the backend was called for once
C30_Witness ==
    /\ prog = "md" /\ pc = "written"
    /\ \E i, j \in DOMAIN paragraphs :
          /\ i # j
          /\ paragraphs[i] \in {Quote, <<>>} /\ translated_paragraphs[i] = paragraphs[i]
          /\ paragraphs[j] \in SubmittedValues
          /\ translated_paragraphs[j] \notin {paragraphs[j], FailedMarked(paragraphs[j])}
    /\ Len(submitted) = 1 /\ calls = 1
    /\ failed_paragraphs = 0

=============================================================================
